---- MODULE Spec2Model ----
(***************************************************************************)
(* A model of @politie/informant: the logger tree, the level methods and   *)
(* their dispatch to the registered LogHandlers, and the handler registry  *)
(* with captureLogging / restore, and the handler combinators fromLevel,    *)
(* forLogger, async and ringBuffer; the wrappers traceWrap, measure and     *)
(* measureWrap and the decorator @deprecated; and the errors of errors.ts. *)
(* The tree is a heap of Logger objects: every object is reached from the  *)
(* root by exactly one chain of childLoggers keys, so that chain (the key  *)
(* path) stands for the object's identity.                                 *)
(*                                                                         *)
(* Strings of the program are sequences of one-character strings, so that  *)
(* concatenation and split('.') are computed, not assumed.                 *)
(*                                                                         *)
(* Objects are records. A record lists its fields in the order in which    *)
(* their names first appear in this module, the order TLC keeps them in.   *)
(***************************************************************************)
EXTENDS Integers, Sequences, FiniteSets, TLC

VARIABLES
    loggers,      \* the logger tree: key path (sequence of segments) -> [name, level]
    logHandlers,  \* the exported array of registered LogHandlers
    captures,     \* one entry per captureLogging() call: its closure
    clock,        \* number of LogRecords constructed so far (record identity)
    last,         \* the operation that just returned: call, result and what it invoked
    timers,       \* the callbacks given to setTimeout that have not run yet, oldest first
    ring,         \* the closure of the ringBuffer in use: maxSize, array, size, next
    ringLog,      \* every value handed to that ringBuffer so far, oldest first
    now,          \* what Date.now() returns, in ms
    silenceUntil, \* the variable of that name in the closure of each @deprecated method
    warnedAt,     \* for each @deprecated method, the instant of its last warning record
    stack,        \* the calls of wrapped functions in progress, the innermost last
    events,       \* what the calls of wrapped functions did so far, in order
    callCount,    \* number of calls of wrapped functions made so far (call identity)
    stoppers,     \* the functions returned by logger.measure(), in order of the calls
    uniqueId,     \* the module variable of that name: measurements started so far
    objs,         \* the heap of plain objects: [fields, shared], shared when the
                  \* application holds a reference to the object
    errs,         \* the heap of Error objects, in order of construction
    lastIndex     \* the property lastIndex of each RegExp object in use

\* The state of the decorators and wrappers, and the state of the errors
wrapVars == <<now, silenceUntil, warnedAt, stack, events, callCount, stoppers, uniqueId>>

errorVars == <<objs, errs>>

vars == <<loggers, logHandlers, captures, clock, last, timers, ring, ringLog, wrapVars,
          errorVars, lastIndex>>

----------------------------------------------------------------------------
(* Bounds of the model. *)

MaxRecords == 2       \* records constructed in one behaviour
MaxCaptures == 2      \* captureLogging() calls in one behaviour
MaxLoggers == 3       \* Logger objects in the tree, the root included
MaxRingSize == 3      \* largest maxSize a ringBuffer is made with
MaxInserts == 4       \* values handed to the ringBuffer in one behaviour
MaxCalls == 2         \* calls of traceWrap'd and measureWrap'd functions in one behaviour
MaxDeprecatedCalls == 2  \* calls of @deprecated methods in one behaviour
MaxStoppers == 2      \* measurements started in one behaviour
MaxNow == 2001        \* the latest instant Date.now() reaches, in ms
MaxErrors == 3        \* Error objects made in one behaviour
MaxBaseErrors == 2    \* of which made with new BaseError(...)
MaxObjects == 2       \* objects the application holds: its own and those handed to it
MaxHandlers == 2      \* handlers registered at once, where the registry is bounded

----------------------------------------------------------------------------
(* LogLevel *)

trace == 100
debug == 200
performance == 300
info == 400
warning == 500
error == 600

levels == <<trace, debug, performance, info, warning, error>>

Range(s) == {s[i] : i \in DOMAIN s}

\* The levels a test assigns to a logger: each level, one rank below the
\* lowest and one rank above the highest.
LevelInputs == Range(levels) \cup {trace - 100, error + 100}

----------------------------------------------------------------------------
(* Handlers are function values, compared by identity. *)

consoleHandler == [kind |-> "console", id |-> 0]

UserHandler(i) == [kind |-> "user", id |-> i]

\* The closure `r => records.push(r)` made by the i-th captureLogging() call.
CaptureHandler(i) == [kind |-> "capture", id |-> i]

\* The handlers application code can name: its own functions and the exported
\* consoleHandler (the capturing closure and the logHandlers array are not
\* exported by the package).
UserHandlers == {UserHandler(1), UserHandler(2)}

PublicHandlers == {UserHandler(1), consoleHandler}

\* A handler of the application that throws an Error
ThrowingHandler(i) == [kind |-> "throws", id |-> i]

\* Handlers of the application that work on the registry when they are
\* called: record => registerLogHandler(handler), record =>
\* unregisterLogHandler(handler), a handler that unregisters itself, one
\* that calls captureLogging() and one that calls the restore() of the
\* k-th capture
RegisteringHandler(handler) == [kind |-> "registers", handler |-> handler]

UnregisteringHandler(handler) == [kind |-> "unregisters", handler |-> handler]

SelfUnregisteringHandler(i) == [kind |-> "unregistersItself", id |-> i]

CapturingHandler(i) == [kind |-> "captures", id |-> i]

RestoringHandler(k) == [kind |-> "restores", id |-> k]

\* The closures the combinators return. A closure is known by what it closes
\* over: the model has one wrapper per combinator and arguments.
fromLevel(level, handler) == [kind |-> "fromLevel", handler |-> handler, level |-> level]

forLogger(name, handler) == [kind |-> "forLogger", handler |-> handler, name |-> name]

async(handler) == [kind |-> "async", handler |-> handler]

\* A RegExp object: the literal /source/flags. The source is a string of
\* characters that stand for themselves.
RegExp(re, source, global, sticky) ==
    [re |-> re, source |-> source, global |-> global, sticky |-> sticky]

\* The RegExp objects in use: /-t/, /-t/g, /-t/y and /-t/gy
RegExps == 1..4

Pattern(re) == RegExp(re, <<"-", "t">>, re \in {2, 4}, re \in {3, 4})

\* forLogger(name, handler) with a RegExp: the closure of the else branch
forLoggerPattern(name, handler) ==
    [kind |-> "forLoggerPattern", handler |-> handler, name |-> name]

----------------------------------------------------------------------------
(* Logger tree *)

Dot == "."

RootKey == <<>>

\* `${this.name}${this.name && '.'}${name}`
QualifiedName(parentName, name) ==
    parentName \o (IF parentName # <<>> THEN <<Dot>> ELSE <<>>) \o name

RECURSIVE SplitFrom(_, _, _)
SplitFrom(str, i, cur) ==
    IF i > Len(str) THEN <<cur>>
    ELSE IF str[i] = Dot THEN <<cur>> \o SplitFrom(str, i + 1, <<>>)
    ELSE SplitFrom(str, i + 1, Append(cur, str[i]))

\* path.split('.')
Split(str) == SplitFrom(str, 1, <<>>)

\* childLoggers is an object literal, so this.childLoggers[name] also finds
\* what every object inherits from Object.prototype. None of these values
\* is falsy and none is a Logger.
ObjectPrototypeKeys ==
    { <<"c","o","n","s","t","r","u","c","t","o","r">>,
      <<"h","a","s","O","w","n","P","r","o","p","e","r","t","y">>,
      <<"i","s","P","r","o","t","o","t","y","p","e","O","f">>,
      <<"p","r","o","p","e","r","t","y","I","s","E","n","u","m","e","r","a","b","l","e">>,
      <<"t","o","L","o","c","a","l","e","S","t","r","i","n","g">>,
      <<"t","o","S","t","r","i","n","g">>,
      <<"v","a","l","u","e","O","f">>,
      <<"_","_","p","r","o","t","o","_","_">>,
      <<"_","_","d","e","f","i","n","e","G","e","t","t","e","r","_","_">>,
      <<"_","_","d","e","f","i","n","e","S","e","t","t","e","r","_","_">>,
      <<"_","_","l","o","o","k","u","p","G","e","t","t","e","r","_","_">>,
      <<"_","_","l","o","o","k","u","p","S","e","t","t","e","r","_","_">> }

\* p is the key path of k or of one of its ancestors
IsPrefix(p, k) == Len(p) <= Len(k) /\ SubSeq(k, 1, Len(p)) = p

\* The key path of the node whose childLoggers holds k
Parent(k) == SubSeq(k, 1, Len(k) - 1)

\* childLogger without the check for an empty name
RECURSIVE childLoggerArrNoEmptyCheck(_, _, _)
childLoggerArrNoEmptyCheck(tree, key, path) ==
    IF Len(path) = 0 THEN [tree |-> tree, node |-> key, threw |-> FALSE]
    ELSE LET name == Head(path)
             ck == Append(key, name)
             t2 == IF ck \in DOMAIN tree THEN tree
                   ELSE tree @@ (ck :> [level |-> tree[key].level,
                                        name |-> QualifiedName(tree[key].name, name)])
         IN IF ck \notin DOMAIN tree /\ name \in ObjectPrototypeKeys
            THEN [tree |-> tree, node |-> key, threw |-> TRUE]
            ELSE childLoggerArrNoEmptyCheck(t2, ck, Tail(path))

\* childLogger that makes a new Logger for a name the map already holds
RECURSIVE childLoggerArrAlwaysNew(_, _, _)
childLoggerArrAlwaysNew(tree, key, path) ==
    IF Len(path) = 0 THEN [tree |-> tree, node |-> key, threw |-> FALSE]
    ELSE LET name == Head(path)
             ck == Append(key, name)
             t2 == [k \in {j \in DOMAIN tree : ~IsPrefix(ck, j)} \cup {ck} |->
                       IF k = ck THEN [level |-> tree[key].level,
                                       name |-> QualifiedName(tree[key].name, name)]
                       ELSE tree[k]]
         IN IF name = <<>>
            THEN [tree |-> tree, node |-> key, threw |-> TRUE]
            ELSE IF ck \notin DOMAIN tree /\ name \in ObjectPrototypeKeys
            THEN [tree |-> tree, node |-> key, threw |-> TRUE]
            ELSE childLoggerArrAlwaysNew(t2, ck, Tail(path))

\* childLogger that gives every new node the default level of the root
RECURSIVE childLoggerArrDefaultLevel(_, _, _)
childLoggerArrDefaultLevel(tree, key, path) ==
    IF Len(path) = 0 THEN [tree |-> tree, node |-> key, threw |-> FALSE]
    ELSE LET name == Head(path)
             ck == Append(key, name)
             t2 == IF ck \in DOMAIN tree THEN tree
                   ELSE tree @@ (ck :> [level |-> info,
                                        name |-> QualifiedName(tree[key].name, name)])
         IN IF name = <<>>
            THEN [tree |-> tree, node |-> key, threw |-> TRUE]
            ELSE IF ck \notin DOMAIN tree /\ name \in ObjectPrototypeKeys
            THEN [tree |-> tree, node |-> key, threw |-> TRUE]
            ELSE childLoggerArrDefaultLevel(t2, ck, Tail(path))

\* childLogger on an array path; the result carries the tree as the call
\* leaves it, the node returned and whether the call threw. It throws the
\* Error of line 47 on an empty name, and a TypeError when `child` is an
\* inherited property, which has no childLogger method.
RECURSIVE childLoggerArr(_, _, _)
childLoggerArr(tree, key, path) ==
    IF Len(path) = 0 THEN [tree |-> tree, node |-> key, threw |-> FALSE]
    ELSE LET name == Head(path)
             ck == Append(key, name)
             t2 == IF ck \in DOMAIN tree THEN tree
                   ELSE tree @@ (ck :> [level |-> tree[key].level,
                                        name |-> QualifiedName(tree[key].name, name)])
         IN IF name = <<>>
            THEN [tree |-> tree, node |-> key, threw |-> TRUE]
            ELSE IF ck \notin DOMAIN tree /\ name \in ObjectPrototypeKeys
            THEN [tree |-> tree, node |-> key, threw |-> TRUE]
            ELSE childLoggerArr(t2, ck, Tail(path))

\* childLogger on a string path
childLogger(tree, key, path) ==
    IF path = <<>> THEN [tree |-> tree, node |-> key, threw |-> FALSE]
    ELSE childLoggerArr(tree, key, Split(path))

\* The paths looked up with Logger.get
PathInputs == {<<>>, <<"a">>}

\* The direct children of a node: the values of its childLoggers map
Children(tree, key) ==
    {k \in DOMAIN tree : Len(k) = Len(key) + 1 /\ SubSeq(k, 1, Len(key)) = key}

\* setChildLoggersLevel that stops at the direct children
setChildLoggersLevelShallow(tree, key, level) ==
    [k \in DOMAIN tree |->
        IF k = key \/ k \in Children(tree, key)
        THEN [tree[k] EXCEPT !.level = level] ELSE tree[k]]

\* setChildLoggersLevel(level): this.level = level, then the same call on
\* every value of this.childLoggers. The loop visits the children in the
\* order of Object.keys; the calls work on disjoint subtrees, so the order
\* makes no difference to the tree they leave.
RECURSIVE setChildLoggersLevel(_, _, _)
RECURSIVE forEachChildLogger(_, _, _)
setChildLoggersLevel(tree, key, level) ==
    forEachChildLogger([tree EXCEPT ![key].level = level], Children(tree, key), level)

forEachChildLogger(tree, keys, level) ==
    IF keys = {} THEN tree
    ELSE LET k == CHOOSE k \in keys : TRUE
         IN forEachChildLogger(setChildLoggersLevel(tree, k, level), keys \ {k}, level)

----------------------------------------------------------------------------
(* Handler registry *)

IndexOf(arr, x) ==
    IF \E i \in DOMAIN arr : arr[i] = x
    THEN (CHOOSE i \in DOMAIN arr : arr[i] = x /\ \A j \in 1..(i - 1) : arr[j] # x) - 1
    ELSE -1

\* arr.splice(i, 1), i zero-based
Splice1(arr, i) == SubSeq(arr, 1, i) \o SubSeq(arr, i + 2, Len(arr))

\* registerLogHandler without the indexOf test
registerLogHandlerNoCheck(arr, logHandler) == Append(arr, logHandler)

registerLogHandler(arr, logHandler) ==
    IF IndexOf(arr, logHandler) < 0 THEN Append(arr, logHandler) ELSE arr

unregisterLogHandler(arr, logHandler) ==
    LET i == IndexOf(arr, logHandler)
    IN IF i >= 0 THEN Splice1(arr, i) ELSE arr

\* registerAll walking oldHandlers from its end
RECURSIVE registerAllReversed(_, _)
registerAllReversed(arr, oldHandlers) ==
    IF oldHandlers = <<>> THEN arr
    ELSE registerAllReversed(
            IF \E i \in DOMAIN arr : arr[i] = oldHandlers[Len(oldHandlers)] THEN arr
            ELSE Append(arr, oldHandlers[Len(oldHandlers)]),
            SubSeq(oldHandlers, 1, Len(oldHandlers) - 1))

\* oldHandlers.forEach(registerLogHandler)
RECURSIVE registerAll(_, _)
registerAll(arr, oldHandlers) ==
    IF oldHandlers = <<>> THEN arr
    ELSE registerAll(registerLogHandler(arr, Head(oldHandlers)), Tail(oldHandlers))

\* restore that leaves the capturing handler registered
restoreKeepCapturing(arr, handler, oldHandlers) == registerAll(arr, oldHandlers)

\* The restore closure of a capture
restore(arr, handler, oldHandlers) ==
    registerAll(unregisterLogHandler(arr, handler), oldHandlers)

\* captureLogging without `logHandlers.length = 1`
captureSwapKeepRest(arr, handler) ==
    IF arr = <<>> THEN <<handler>> ELSE [arr EXCEPT ![1] = handler]

\* logHandlers[0] = handler; logHandlers.length = 1
captureSwap(arr, handler) == <<handler>>

\* captureLogging() on the registry arr, caps being the captures taken so
\* far: the new capture keeps a copy of the registry.
captureLogging(arr, caps) ==
    LET k == Len(caps) + 1
        seen == [i \in DOMAIN caps |->
                    IF caps[i].lifo /\ ~caps[i].restored
                    THEN [caps[i] EXCEPT !.untouched = FALSE, !.inner = Append(@, k)]
                    ELSE [caps[i] EXCEPT !.untouched = FALSE, !.lifo = FALSE]]
    IN [logHandlers |-> captureSwap(arr, CaptureHandler(k)),
        captures |-> Append(seen, [oldHandlers |-> arr,   \* logHandlers.slice()
                                   lifo |-> TRUE, restored |-> FALSE,
                                   untouched |-> TRUE, inner |-> <<>>,
                                   records |-> <<>>])]

\* The restore() returned by the k-th captureLogging(). The flags of capture
\* k keep what held when its restore() first ran, until the next call that
\* works on the registry.
restoreCapture(arr, caps, k) ==
    [logHandlers |-> restore(arr, CaptureHandler(k), caps[k].oldHandlers),
     captures |-> [i \in DOMAIN caps |->
            IF i = k
            THEN [caps[i] EXCEPT
                    !.restored = TRUE,
                    !.untouched = @ /\ ~caps[i].restored,
                    !.lifo = @ /\ ~caps[i].restored /\ caps[i].inner = <<>>,
                    !.inner = <<>>]
            ELSE IF caps[i].inner # <<>> /\ caps[i].inner[Len(caps[i].inner)] = k
            THEN [caps[i] EXCEPT !.inner = SubSeq(@, 1, Len(@) - 1)]
            ELSE [caps[i] EXCEPT !.untouched = FALSE, !.lifo = FALSE, !.inner = <<>>]]]

\* Every capture taken earlier sees a registry call made by the application.
Touched(caps) ==
    [i \in DOMAIN caps |-> [caps[i] EXCEPT !.untouched = FALSE, !.lifo = FALSE, !.inner = <<>>]]

----------------------------------------------------------------------------
(* Log records and handlers *)

\* createLogRecord: the record of one log statement; `time` is the instant
\* of construction, which also tells two records of the same call shape apart.
createLogRecord(loggerName, level, time) ==
    [level |-> level, time |-> time, logger |-> loggerName]

\* consoleHandler comparing with > where the code has >=
consoleMethodStrict(record) ==
    IF record.level > error THEN "error"
    ELSE IF record.level > warning THEN "warn"
    ELSE IF record.level > info THEN "info"
    ELSE "log"

\* consoleHandler: the console method the record is written with
consoleMethod(record) ==
    IF record.level >= error THEN "error"
    ELSE IF record.level >= warning THEN "warn"
    ELSE IF record.level >= info THEN "info"
    ELSE "log"

\* fromLevel that lets a record through only above the level
passesLevelAbove(record, level) == record.level > level

\* fromLevel: record.level >= level
passesLevel(record, level) == record.level >= level

\* String.prototype.startsWith
StartsWith(str, prefix) ==
    Len(prefix) <= Len(str) /\ SubSeq(str, 1, Len(prefix)) = prefix

\* forLogger that tests the name as a prefix, without the dot
matchesLoggerPrefix(record, name) ==
    record.logger = name \/ StartsWith(record.logger, name)

\* forLogger with a string: record.logger === name ||
\* record.logger.startsWith(name + '.')
matchesLogger(record, name) ==
    record.logger = name \/ StartsWith(record.logger, name \o <<Dot>>)

\* The source matches str at the index i, zero-based
MatchesAt(str, source, i) ==
    i + Len(source) <= Len(str) /\ SubSeq(str, i + 1, i + Len(source)) = source

\* RegExp.prototype.test: name.test(str), index being name.lastIndex. With
\* the flag g or y the search starts at lastIndex, with y it matches there
\* only; then a match sets lastIndex to its end and a failure sets it to 0.
\* Without these flags the search starts at 0 and lastIndex is left alone.
regExpTest(name, index, str) ==
    LET stateful == name.global \/ name.sticky
        start == IF stateful THEN index ELSE 0
        tried == IF name.sticky THEN {start} ELSE start..Len(str)
        found == {i \in tried : MatchesAt(str, name.source, i)}
        first == CHOOSE i \in found : \A j \in found : i <= j
    IN IF found = {}
       THEN [lastIndex |-> IF stateful THEN 0 ELSE index, matched |-> FALSE]
       ELSE [lastIndex |-> IF stateful THEN first + Len(name.source) ELSE index,
             matched |-> TRUE]

\* setTimeout that runs the newest callback first
setTimeoutNewestFirst(tms, handler, record) ==
    <<[handler |-> handler, record |-> record]>> \o tms

\* setTimeout(handler, 0, record): the callback joins the timers that are
\* due; timers of the same delay run in the order they were set.
setTimeout(tms, handler, record) ==
    Append(tms, [handler |-> handler, record |-> record])

\* A dispatch that has called no handler yet; it finds the RegExp objects
\* as the calls before it left them
Dispatching(arr, caps, tms) ==
    [logHandlers |-> arr, captures |-> caps, timers |-> tms, lastIndex |-> lastIndex,
     threw |-> FALSE, invoked |-> <<>>, console |-> <<>>]

RECURSIVE callHandler(_, _, _)

\* async that calls the handler at once
asyncAtOnce(handler, record, d) == callHandler(handler, record, d)

\* async: record => setTimeout(handler, 0, record)
asyncWrapper(handler, record, d) ==
    [d EXCEPT !.timers = setTimeout(@, handler, record)]

\* The dispatch d after a call of captureLogging or restore, which left
\* the registry and the captures as in `changed`
withRegistry(d, changed) ==
    [d EXCEPT !.logHandlers = changed.logHandlers, !.captures = changed.captures]

\* record => name.test(record.logger) && handler(record), `tested` being
\* what test answered and where it left lastIndex
passIfMatched(wrapper, record, d, tested) ==
    IF tested.matched
    THEN callHandler(wrapper.handler, record,
                     [d EXCEPT !.lastIndex[wrapper.name.re] = tested.lastIndex])
    ELSE [d EXCEPT !.lastIndex[wrapper.name.re] = tested.lastIndex]

\* One handler invocation, handler(record). d is the dispatch in progress:
\* the captures' records arrays, the invocations made, the console output
\* and the timers set, the array logHandlers as the handlers called so far
\* have left it, and whether a handler has thrown.
callHandler(handler, record, d) ==
    LET called == [d EXCEPT !.invoked = Append(@, [handler |-> handler, record |-> record])]
    IN CASE handler.kind = "capture" ->
                [called EXCEPT !.captures[handler.id].records = Append(@, record)]
         [] handler.kind = "console" ->
                [called EXCEPT !.console = Append(@, [record |-> record,
                                                      method |-> consoleMethod(record)])]
         [] handler.kind = "fromLevel" ->
                IF passesLevel(record, handler.level)
                THEN callHandler(handler.handler, record, called) ELSE called
         [] handler.kind = "forLogger" ->
                IF matchesLogger(record, handler.name)
                THEN callHandler(handler.handler, record, called) ELSE called
         [] handler.kind = "forLoggerPattern" ->
                passIfMatched(handler, record, called,
                              regExpTest(handler.name, called.lastIndex[handler.name.re],
                                         record.logger))
         [] handler.kind = "async" -> asyncWrapper(handler.handler, record, called)
         [] handler.kind = "throws" -> [called EXCEPT !.threw = TRUE]
         [] handler.kind = "registers" ->
                [called EXCEPT !.logHandlers = registerLogHandler(@, handler.handler)]
         [] handler.kind = "unregisters" ->
                [called EXCEPT !.logHandlers = unregisterLogHandler(@, handler.handler)]
         [] handler.kind = "unregistersItself" ->
                [called EXCEPT !.logHandlers = unregisterLogHandler(@, handler)]
         [] handler.kind = "captures" ->
                withRegistry(called, captureLogging(called.logHandlers, called.captures))
         [] handler.kind = "restores" ->
                IF handler.id \in DOMAIN called.captures
                THEN withRegistry(called, restoreCapture(called.logHandlers,
                                                         called.captures, handler.id))
                ELSE called
         [] OTHER -> called

\* The loop over logHandlers, run from the last handler to the first
RECURSIVE forEachHandlerReversed(_, _, _, _)
forEachHandlerReversed(arr, i, record, d) ==
    IF i > Len(arr) THEN d
    ELSE forEachHandlerReversed(arr, i + 1, record,
                                callHandler(arr[Len(arr) + 1 - i], record, d))

\* The loop over logHandlers with every call in a try block
RECURSIVE forEachHandlerCatching(_, _, _, _)
forEachHandlerCatching(arr, i, record, d) ==
    IF i > Len(d.logHandlers) THEN d
    ELSE forEachHandlerCatching(arr, i + 1, record,
                                callHandler(d.logHandlers[i], record, d))

\* for (const handler of logHandlers) { handler(record); }
\* The iterator reads the array itself, d.logHandlers, at each step: the
\* element at its index, until the index reaches the length the array then
\* has. arr is the array as it was when the loop started. A handler that
\* throws ends the loop.
RECURSIVE forEachHandler(_, _, _, _)
forEachHandler(arr, i, record, d) ==
    IF d.threw \/ i > Len(d.logHandlers) THEN d
    ELSE forEachHandler(arr, i + 1, record, callHandler(d.logHandlers[i], record, d))

\* dispatch that calls consoleHandler after the registered handlers too
dispatchAlsoConsole(arr, record, d) ==
    callHandler(consoleHandler, record, forEachHandler(arr, 1, record, d))

\* if (logHandlers.length === 0) consoleHandler(record) else for ... of
dispatch(arr, record, d) ==
    IF Len(arr) = 0 THEN callHandler(consoleHandler, record, d)
    ELSE forEachHandler(arr, 1, record, d)

\* The level test with >= where the code has >
levelDisabledAtLevel(loggerLevel, level) == loggerLevel >= level

\* this.level > level
levelDisabled(loggerLevel, level) == loggerLevel > level

\* A level method that does not look at arguments.length
hasArgumentsAlways(nargs) == TRUE

\* arguments.length
hasArguments(nargs) == nargs # 0

\* The function `log` made by createLogMethod(level), called on `logger`
\* with nargs arguments, while the timers tms are pending. ret is what the
\* call returns when it returns; it does not return when d.threw, the
\* Error of a handler leaving it.
log(logger, level, nargs, arr, caps, tms, time) ==
    LET d0 == Dispatching(arr, caps, tms)
    IN IF levelDisabled(logger.level, level)
       THEN [time |-> time, d |-> d0, ret |-> FALSE]
       ELSE IF hasArguments(nargs)
            THEN [time |-> time + 1,
                  d |-> dispatch(arr, createLogRecord(logger.name, level, time + 1), d0),
                  ret |-> TRUE]
            ELSE [time |-> time, d |-> d0, ret |-> TRUE]

\* The numbers of arguments a level method is called with
ArgCounts == {0, 1, 2}

----------------------------------------------------------------------------
(* Decorators and wrappers. A wrapper calls the function it wraps, which is
   code of the application: the model splits the wrapper's run where that
   function is entered and where it returns or throws. w is what the run
   has changed so far: the captures' records, the timers, the number of
   records constructed and the events. *)

\* The methods decorated with @deprecated, each with its own closure
DeprecatedMethods == {1, 2}

\* -Infinity, which every value of Date.now() is above
MinusInfinity == -1

\* The time a warning silences the next ones, in ms
SilenceWindow == 1000

\* The run w of a wrapper after a call of a level method that came to r
logged(w, r, level, nargs, tag, id) ==
    [captures |-> r.d.captures, clock |-> r.time, timers |-> r.d.timers,
     events |-> Append(w.events, [level |-> level, nargs |-> nargs, ret |-> r.ret,
                                  tag |-> tag, ev |-> "log", call |-> id,
                                  emitted |-> r.time > w.clock]),
     ret |-> r.ret, call |-> w.call]

\* A level method called by a wrapper: logger[level](...nargs arguments).
\* The event keeps what was called on behalf of which call (of which
\* measurement, for the tags "measure" and "timing"), what it returned and
\* whether a record was constructed.
logFrom(w, logger, level, nargs, tag, id) ==
    logged(w, log(logger, level, nargs, logHandlers, w.captures, w.timers, w.clock),
           level, nargs, tag, id)

\* func.apply(this, arguments) that passes no arguments on
applyFuncBare(w, id, args) ==
    [w EXCEPT !.events = Append(@, [ev |-> "invoke", call |-> id, args |-> "none"])]

\* func.apply(this, arguments): the wrapped function is entered
applyFunc(w, id, args) ==
    [w EXCEPT !.events = Append(@, [ev |-> "invoke", call |-> id, args |-> args])]

\* maybeTraced that always takes the traced path
maybeTracedAlways(w, logger, id, args) ==
    [w |-> applyFunc(logFrom(logFrom(w, logger, trace, 0, "probe", id),
                             logger, trace, 1, "entry", id), id, args),
     wrapped |-> TRUE]

\* maybeTraced, and traced up to the call of func: the probe logger.trace(),
\* then the entry message when the probe returned true
maybeTraced(w, logger, id, args) ==
    LET probed == logFrom(w, logger, trace, 0, "probe", id)
    IN IF probed.ret
       THEN [w |-> applyFunc(logFrom(probed, logger, trace, 1, "entry", id), id, args),
             wrapped |-> TRUE]
       ELSE [w |-> applyFunc(probed, id, args), wrapped |-> FALSE]

\* traced that logs RETURNS whatever func did
tracedExitReturnsOnly(w, logger, id, outcome) ==
    logFrom(w, logger, trace, 2, "RETURNS", id)

\* traced from the return of func: logger.trace('RETURNS', ...) or, in the
\* catch block, logger.trace(e, 'THROWS', e)
tracedExit(w, logger, id, outcome) ==
    IF outcome.threw THEN logFrom(w, logger, trace, 3, "THROWS", id)
    ELSE logFrom(w, logger, trace, 2, "RETURNS", id)

\* Date.now() > silenceUntil
deprecatedWarnsAfter(t, until) == t > until

\* Date.now() >= silenceUntil
deprecatedWarns(t, until) == t >= until

\* A wrapper that returns nothing
wrapperOutcomeDropped(outcome) == [outcome EXCEPT !.value = "undefined"]

\* return func.apply(...) / throw e: what the wrapper hands to its caller
wrapperOutcome(outcome) == outcome

\* measure() that starts a measurement whatever the probe returned
measureAlways(w, stps, uid, n, name) ==
    LET probed == logFrom(w, loggers[n], performance, 0, "measure", w.call)
    IN [stoppers |-> Append(stps, [name |-> name, logger |-> n, called |-> FALSE,
                                   real |-> TRUE, done |-> FALSE,
                                   uniqueName |-> <<name, uid>>, at |-> loggers[n].level]),
        uniqueId |-> uid + 1, w |-> probed]

\* logger.measure(name) on the logger n: the probe this.performance(), then
\* the unique name, mark() and the stopper, or the stopper that does nothing.
\* `real`, `done` and `uniqueName` are what the closure holds; `at`, the
\* level of the logger when measure() was called, and `called`, whether the
\* stopper has been called, are kept for the properties only.
measure(w, stps, uid, n, name) ==
    LET probed == logFrom(w, loggers[n], performance, 0, "measure", w.call)
    IN IF probed.ret
       THEN [stoppers |-> Append(stps, [name |-> name, logger |-> n, called |-> FALSE,
                                        real |-> TRUE, done |-> FALSE,
                                        uniqueName |-> <<name, uid>>, at |-> loggers[n].level]),
             uniqueId |-> uid + 1, w |-> probed]
       ELSE [stoppers |-> Append(stps, [name |-> name, logger |-> n, called |-> FALSE,
                                        real |-> FALSE, done |-> FALSE,
                                        uniqueName |-> <<>>, at |-> loggers[n].level]),
             uniqueId |-> uid, w |-> probed]

\* The stopper without its `done` flag
stopperEveryTime(w, stps, i) ==
    IF ~stps[i].real THEN [stoppers |-> [stps EXCEPT ![i].called = TRUE], w |-> w]
    ELSE [stoppers |-> [stps EXCEPT ![i].done = TRUE, ![i].called = TRUE],
          w |-> logFrom(w, loggers[stps[i].logger], performance, 4, "timing", w.call)]

\* The i-th stopper called: nothing when it is the empty stopper or is
\* done; else done = true, stop(uniqueName) and this.performance(details,
\* format, name, duration)
stopper(w, stps, i) ==
    IF ~stps[i].real \/ stps[i].done
    THEN [stoppers |-> [stps EXCEPT ![i].called = TRUE], w |-> w]
    ELSE [stoppers |-> [stps EXCEPT ![i].done = TRUE, ![i].called = TRUE],
          w |-> logFrom(w, loggers[stps[i].logger], performance, 4, "timing", w.call)]

\* maybeMeasured, and measured up to the call of func
maybeMeasured(w, stps, uid, n, id, args) ==
    LET probed == logFrom(w, loggers[n], performance, 0, "probe", id)
    IN IF probed.ret
       THEN LET m == measure([probed EXCEPT !.call = id], stps, uid, n, "wrap")
            IN [stoppers |-> m.stoppers, uniqueId |-> m.uniqueId, w |-> applyFunc(m.w, id, args),
                wrapped |-> TRUE, stopper |-> Len(m.stoppers)]
       ELSE [stoppers |-> stps, uniqueId |-> uid, w |-> applyFunc(probed, id, args),
             wrapped |-> FALSE, stopper |-> 0]

\* measured that stops the measurement only when func returned
measuredExitNoFinally(w, stps, n, i, id, outcome) ==
    IF outcome.threw
    THEN [stoppers |-> stps, w |-> logFrom(w, loggers[n], performance, 1, "error", id)]
    ELSE stopper([w EXCEPT !.call = id], stps, i)

\* measured from the return of func: in the catch block
\* logger.performance(e), and stopper() in the finally block
measuredExit(w, stps, n, i, id, outcome) ==
    IF outcome.threw
    THEN stopper([logFrom(w, loggers[n], performance, 1, "error", id) EXCEPT !.call = id],
                 stps, i)
    ELSE stopper([w EXCEPT !.call = id], stps, i)

----------------------------------------------------------------------------
(* ringBuffer *)

\* No ringBuffer has been made yet
NoRing == [maxSize |-> -1]

\* An index of the array that was never assigned
Hole == "empty"

\* ringBuffer(maxSize): new Array(maxSize), size = 0, next = 0
ringBuffer(maxSize) ==
    [maxSize |-> maxSize, array |-> [i \in 0..(maxSize - 1) |-> Hole], size |-> 0, next |-> 0]

\* NaN, the value of (next + 1) % 0 and of NaN + 1; it is no index
NaN == -1

\* handle(record). array[next] = record assigns the element at an index
\* of the array, lengthens the array when next is an index beyond its
\* length, and sets a property that is no element when next is NaN.
ringHandle(r, record) ==
    [r EXCEPT !.array = IF r.next = NaN THEN @
                        ELSE [i \in DOMAIN @ \cup 0..r.next |->
                                 IF i = r.next THEN record
                                 ELSE IF i \in DOMAIN @ THEN @[i] ELSE Hole],
              !.next = IF r.next = NaN \/ r.maxSize = 0 THEN NaN
                       ELSE (r.next + 1) % r.maxSize,
              !.size = IF r.size < r.maxSize THEN r.size + 1 ELSE r.size]

\* array.slice(from, to): NaN counts as 0, and an index beyond the length
\* as the length
ArraySlice(array, from, to) ==
    LET length == Cardinality(DOMAIN array)
        start == IF from = NaN THEN 0 ELSE IF from > length THEN length ELSE from
        end == IF to = NaN THEN 0 ELSE IF to > length THEN length ELSE to
    IN [i \in 1..(end - start) |-> array[start + i - 1]]

\* get() that always returns array.slice(0, next)
ringGetFromStart(r) == ArraySlice(r.array, 0, r.next)

\* get()
ringGet(r) ==
    IF r.size < r.maxSize THEN ArraySlice(r.array, 0, r.next)
    ELSE ArraySlice(r.array, r.next, Cardinality(DOMAIN r.array))
            \o ArraySlice(r.array, 0, r.next)

\* The values handed to a ringBuffer
RingValues == {"x", "y"}

----------------------------------------------------------------------------
(* errors.ts. Objects and errors live on a heap and are known by their
   index: objs[i] has the own properties of an object, whether the
   application holds a reference to it and what made it, errs[i] is an
   Error. A value of a
   property is a string, kept as the sequence of its lines. *)

EmptyObject == [k \in {} |-> <<>>]

\* { ...a, ...b }
Spread(a, b) == [k \in DOMAIN a \cup DOMAIN b |-> IF k \in DOMAIN b THEN b[k] ELSE a[k]]

\* new Error(): err.stack of the i-th error
Stacks == <<"stack1", "stack2", "stack3", "stack4", "stack5", "stack6">>

PlainError(i) ==
    [stack |-> Stacks[i], info |-> 0, kind |-> "Error", cause |-> 0, list |-> <<>>,
     given |-> EmptyObject, message |-> <<>>]

\* An argument: a string, a reference to an Error or to an object, or undefined
Arg(t, ref) == [t |-> t, ref |-> ref]

\* err instanceof BaseError, undefined being 0
IsBaseError(errors, e) == e # 0 /\ errors[e].kind \in {"BaseError", "MultiError"}

\* args.findIndex(arg => typeof arg === 'string')
findIndex(args) ==
    LET found == {i \in DOMAIN args : args[i].t = "string"}
    IN IF found = {} THEN -1 ELSE (CHOOSE i \in found : \A j \in found : i <= j) - 1

\* The largest index the message may have
MaxMessageIndex == 2

\* extractMessage that accepts a message at any index
extractMessageAnywhere(args) ==
    IF findIndex(args) < 0 THEN [threw |-> TRUE, message |-> <<>>]
    ELSE [threw |-> FALSE, message |-> SubSeq(args, findIndex(args) + 1, Len(args))]

\* extractMessage: throws without a string among the first three arguments;
\* the message is the arguments from the string on, joined, and the cause's
\* message when the first argument is an Error
extractMessage(args) ==
    LET messageIndex == findIndex(args)
    IN IF messageIndex < 0 \/ messageIndex > MaxMessageIndex THEN [threw |-> TRUE, message |-> <<>>]
       ELSE [threw |-> FALSE,
             message |-> SubSeq(args, messageIndex + 1, Len(args))
                            \o (IF args[1].t = "error" THEN <<args[1]>> ELSE <<>>)]

\* The last argument of the kind t, 0 if there is none
LastOf(args, t) ==
    LET at == {i \in DOMAIN args : args[i].t = t}
    IN IF at = {} THEN 0 ELSE args[CHOOSE i \in at : \A j \in at : j <= i].ref

\* this._info = arg, with no copy
copyInfoShared(objects, o) == [objs |-> objects, ref |-> o]

\* this._info = { ...arg }: a new object, which the error alone refers to
copyInfo(objects, o) ==
    IF o = 0 THEN [objs |-> objects, ref |-> 0]
    ELSE [objs |-> Append(objects, [fields |-> objects[o].fields, held |-> FALSE,
                                    origin |-> "constructor"]),
          ref |-> Len(objects) + 1]

\* new BaseError(...args), and new MultiError for the kind "MultiError":
\* the arguments before the first string give the cause and the info.
\* `given` keeps what the info argument held, for the properties only.
NewBaseError(objects, errors, args, kind, list) ==
    LET m == extractMessage(args)
        before == SubSeq(args, 1, findIndex(args))
        o == LastOf(before, "object")
        copied == copyInfo(objects, o)
    IN IF m.threw THEN [objs |-> objects, errs |-> errors, threw |-> TRUE]
       ELSE [objs |-> copied.objs,
             errs |-> Append(errors,
                             [stack |-> Stacks[Len(errors) + 1], info |-> copied.ref,
                              kind |-> kind, cause |-> LastOf(before, "error"),
                              list |-> list,
                              given |-> IF o = 0 THEN EmptyObject ELSE objects[o].fields,
                              message |-> m.message]),
             threw |-> FALSE]

\* cause(err)
cause(errors, e) == IF IsBaseError(errors, e) THEN errors[e].cause ELSE 0

RECURSIVE infoInnerWins(_, _, _)
\* info() in which the cause's properties win
infoInnerWins(objects, errors, e) ==
    LET own == IF errors[e].info = 0 THEN EmptyObject ELSE objects[errors[e].info].fields
    IN IF IsBaseError(errors, errors[e].cause)
       THEN Spread(own, infoInnerWins(objects, errors, errors[e].cause))
       ELSE own

RECURSIVE BaseErrorInfo(_, _, _)
\* BaseError.info(): { ...c.info(), ...this._info } or { ...this._info }
BaseErrorInfo(objects, errors, e) ==
    LET own == IF errors[e].info = 0 THEN EmptyObject ELSE objects[errors[e].info].fields
    IN IF IsBaseError(errors, errors[e].cause)
       THEN Spread(BaseErrorInfo(objects, errors, errors[e].cause), own)
       ELSE own

\* errorInfo(err)
errorInfo(objects, errors, e) ==
    IF IsBaseError(errors, e) THEN BaseErrorInfo(objects, errors, e) ELSE EmptyObject

RECURSIVE fullStack(_, _)
\* fullStack(err)
fullStack(errors, e) ==
    IF cause(errors, e) # 0
    THEN <<errors[e].stack, "caused by">> \o fullStack(errors, cause(errors, e))
    ELSE <<errors[e].stack>>

RECURSIVE AssignAll(_, _, _)
\* Object.assign({}, ..._errors.map(errorInfo))
AssignAll(objects, errors, list) ==
    IF list = <<>> THEN EmptyObject
    ELSE Spread(AssignAll(objects, errors, SubSeq(list, 1, Len(list) - 1)),
                errorInfo(objects, errors, list[Len(list)]))

\* new MultiError(_errors): super(_errors[0], Object.assign(...), message)
MultiError(objects, errors, list) ==
    LET merged == Append(objects, [fields |-> AssignAll(objects, errors, list),
                                   held |-> FALSE, origin |-> "assign"])
        first == IF list = <<>> THEN Arg("undefined", 0) ELSE Arg("error", list[1])
    IN NewBaseError(merged, errors, <<first, Arg("object", Len(merged)), Arg("string", 0)>>,
                    "MultiError", list)

\* errorFromList that wraps a single error too
errorFromListWrapsOne(objects, errors, list) ==
    IF Len(list) = 0 THEN [objs |-> objects, errs |-> errors, got |-> <<>>]
    ELSE LET made == MultiError(objects, errors, list)
         IN [objs |-> made.objs, errs |-> made.errs, got |-> <<Len(made.errs)>>]

\* errorFromList(errors): what it returns is `got`, <<>> being undefined
errorFromList(objects, errors, list) ==
    IF Len(list) = 0 THEN [objs |-> objects, errs |-> errors, got |-> <<>>]
    ELSE IF Len(list) = 1 THEN [objs |-> objects, errs |-> errors, got |-> <<list[1]>>]
    ELSE LET made == MultiError(objects, errors, list)
         IN [objs |-> made.objs, errs |-> made.errs, got |-> <<Len(made.errs)>>]

\* errorForEach that hands the MultiError itself to the callback
errorForEachWhole(errors, e) == <<e>>

\* errorForEach(err, cb): the errors cb is called with, in order
errorForEach(errors, e) ==
    IF errors[e].kind = "MultiError" THEN errors[e].list ELSE <<e>>

\* { ...detailsObj } that is detailsObj itself
detailsCopyShared(objects, o) == [ref |-> o, fields |-> objects[o].fields]

\* { ...detailsObj }: a new object
detailsCopy(objects, o) == [ref |-> Len(objects) + 1, fields |-> objects[o].fields]

\* The details in which the error's properties win
detailsOfErrorLast(objects, errors, err, detailsObj) ==
    [ref |-> Len(objects) + 1,
     fields |-> Spread(Spread(IF detailsObj = 0 THEN EmptyObject
                              ELSE objects[detailsObj].fields,
                              errorInfo(objects, errors, err)),
                       ("stack" :> fullStack(errors, err)))]

\* { stack: fullStack(error), ...errorInfo(error), ...detailsObj }: a new object
detailsOfError(objects, errors, err, detailsObj) ==
    [ref |-> Len(objects) + 1,
     fields |-> Spread(Spread(("stack" :> fullStack(errors, err)),
                              errorInfo(objects, errors, err)),
                       IF detailsObj = 0 THEN EmptyObject ELSE objects[detailsObj].fields)]

\* The details of createLogRecord(level, ...args): <<>> for undefined, or
\* one object, by the reference it gets and its properties. The record and
\* its details live as long as the handlers keep them.
details(objects, errors, args) ==
    LET err == IF args # <<>> /\ args[1].t = "error" THEN args[1].ref ELSE 0
        rest == IF err # 0 THEN Tail(args) ELSE args
        detailsObj == IF rest # <<>> /\ rest[1].t = "object" THEN rest[1].ref ELSE 0
    IN IF err # 0 THEN <<detailsOfError(objects, errors, err, detailsObj)>>
       ELSE IF detailsObj # 0 THEN <<detailsCopy(objects, detailsObj)>>
       ELSE <<>>

----------------------------------------------------------------------------
(* State machine *)

\* What is known of the call that just returned: the operation; for a level
\* method the logger, the level, the number of arguments, the result, the
\* number of records constructed, the handler invocations in order and the
\* console output; for a call on the tree the receiver, the path given, the
\* node returned and whether it threw; for a ringBuffer's get() the array
\* it returned.
Returned(op) ==
    [level |-> 0, path |-> <<>>, node |-> RootKey, threw |-> FALSE, invoked |-> <<>>,
     console |-> <<>>, nargs |-> 0, ret |-> FALSE, got |-> <<>>, op |-> op,
     self |-> RootKey, created |-> 0]

Init ==
    /\ loggers = (RootKey :> [level |-> info, name |-> <<>>])
    /\ logHandlers = <<>>
    /\ captures = <<>>
    /\ clock = 0
    /\ last = Returned("init")
    /\ timers = <<>>
    /\ ring = NoRing
    /\ ringLog = <<>>
    /\ now = 0
    /\ silenceUntil = [m \in DeprecatedMethods |-> MinusInfinity]
    /\ warnedAt = [m \in DeprecatedMethods |-> MinusInfinity]
    /\ stack = <<>>
    /\ events = <<>>
    /\ callCount = 0
    /\ stoppers = <<>>
    /\ uniqueId = 0
    /\ objs = <<>>
    /\ errs = <<>>
    /\ lastIndex = [re \in RegExps |-> 0]

\* Logger.get(path)
Get(path) ==
    LET r == childLogger(loggers, RootKey, path)
    IN /\ loggers' = r.tree
       /\ last' = [Returned("get") EXCEPT !.path = path, !.node = r.node, !.threw = r.threw]
       /\ UNCHANGED <<logHandlers, captures, clock, timers, ring, ringLog, wrapVars, errorVars,
                   lastIndex>>

\* n.childLogger(path), path a string
ChildLogger(n, path) ==
    /\ n \in DOMAIN loggers
    /\ LET r == childLogger(loggers, n, path)
       IN /\ Cardinality(DOMAIN r.tree) <= MaxLoggers
          /\ loggers' = r.tree
          /\ last' = [Returned("childLogger") EXCEPT !.self = n, !.path = path,
                                                     !.node = r.node, !.threw = r.threw]
    /\ UNCHANGED <<logHandlers, captures, clock, timers, ring, ringLog, wrapVars, errorVars,
                   lastIndex>>

\* n.childLogger(path), path an array of names
ChildLoggerArray(n, path) ==
    /\ n \in DOMAIN loggers
    /\ LET r == childLoggerArr(loggers, n, path)
       IN /\ Cardinality(DOMAIN r.tree) <= MaxLoggers
          /\ loggers' = r.tree
          /\ last' = [Returned("childLoggerArray") EXCEPT !.self = n, !.path = path,
                                                          !.node = r.node, !.threw = r.threw]
    /\ UNCHANGED <<logHandlers, captures, clock, timers, ring, ringLog, wrapVars, errorVars,
                   lastIndex>>

\* logger.level = level
SetLevel(n, level) ==
    /\ n \in DOMAIN loggers
    /\ loggers' = [loggers EXCEPT ![n].level = level]
    /\ last' = [Returned("setLevel") EXCEPT !.self = n, !.level = level]
    /\ UNCHANGED <<logHandlers, captures, clock, timers, ring, ringLog, wrapVars, errorVars,
                   lastIndex>>

\* n.setChildLoggersLevel(level); it returns this
SetChildLoggersLevel(n, level) ==
    /\ n \in DOMAIN loggers
    /\ loggers' = setChildLoggersLevel(loggers, n, level)
    /\ last' = [Returned("setChildLoggersLevel") EXCEPT !.self = n, !.level = level,
                                                        !.node = n]
    /\ UNCHANGED <<logHandlers, captures, clock, timers, ring, ringLog, wrapVars, errorVars,
                   lastIndex>>

\* logger.trace(...), ..., logger.error(...)
Log(n, level, nargs) ==
    /\ n \in DOMAIN loggers
    /\ LET r == log(loggers[n], level, nargs, logHandlers, captures, timers, clock)
       IN /\ r.time <= MaxRecords
          /\ Len(r.d.captures) <= MaxCaptures
          /\ captures' = r.d.captures
          /\ timers' = r.d.timers
          /\ clock' = r.time
          /\ logHandlers' = r.d.logHandlers
          /\ lastIndex' = r.d.lastIndex
          /\ last' = [Returned("log") EXCEPT !.node = n, !.level = level,
                                             !.nargs = nargs,
                                             !.ret = r.ret /\ ~r.d.threw,
                                             !.threw = r.d.threw,
                                             !.created = r.time - clock, !.invoked = r.d.invoked,
                                             !.console = r.d.console]
    /\ UNCHANGED <<loggers, ring, ringLog, wrapVars, errorVars>>

Register(h) ==
    /\ logHandlers' = registerLogHandler(logHandlers, h)
    /\ captures' = Touched(captures)
    /\ last' = Returned("register")
    /\ UNCHANGED <<loggers, clock, timers, ring, ringLog, wrapVars, errorVars,
                   lastIndex>>

Unregister(h) ==
    /\ logHandlers' = unregisterLogHandler(logHandlers, h)
    /\ captures' = Touched(captures)
    /\ last' = Returned("unregister")
    /\ UNCHANGED <<loggers, clock, timers, ring, ringLog, wrapVars, errorVars,
                   lastIndex>>

\* captureLogging()
Capture ==
    /\ Len(captures) < MaxCaptures
    /\ LET made == captureLogging(logHandlers, captures)
       IN /\ captures' = made.captures
          /\ logHandlers' = made.logHandlers
          /\ last' = Returned("capture")
    /\ UNCHANGED <<loggers, clock, timers, ring, ringLog, wrapVars, errorVars,
                   lastIndex>>

\* restore() of the k-th captureLogging()
Restore(k) ==
    /\ k \in DOMAIN captures
    /\ LET done == restoreCapture(logHandlers, captures, k)
       IN /\ logHandlers' = done.logHandlers
          /\ captures' = done.captures
    /\ last' = Returned("restore")
    /\ UNCHANGED <<loggers, clock, timers, ring, ringLog, wrapVars, errorVars,
                   lastIndex>>

\* handler(record), called by the application itself as a test does
Handle(handler, record) ==
    /\ LET d == callHandler(handler, record, Dispatching(logHandlers, captures, timers))
       IN /\ captures' = d.captures
          /\ timers' = d.timers
          /\ logHandlers' = d.logHandlers
          /\ lastIndex' = d.lastIndex
          /\ last' = [Returned("handle") EXCEPT !.threw = d.threw, !.invoked = d.invoked,
                                                !.console = d.console]
    /\ UNCHANGED <<loggers, clock, ring, ringLog, wrapVars, errorVars>>

\* The event loop runs the oldest timer that is due: handler(record)
RunTimer ==
    /\ timers # <<>>
    /\ LET task == Head(timers)
           d == callHandler(task.handler, task.record,
                            Dispatching(logHandlers, captures, Tail(timers)))
       IN /\ captures' = d.captures
          /\ timers' = d.timers
          /\ logHandlers' = d.logHandlers
          /\ lastIndex' = d.lastIndex
          /\ last' = [Returned("timer") EXCEPT !.threw = d.threw, !.invoked = d.invoked,
                                               !.console = d.console]
    /\ UNCHANGED <<loggers, clock, ring, ringLog, wrapVars, errorVars>>

\* ringBuffer(maxSize)
RingBuffer(maxSize) ==
    /\ ring = NoRing
    /\ ring' = ringBuffer(maxSize)
    /\ last' = Returned("ringBuffer")
    /\ UNCHANGED <<loggers, logHandlers, captures, clock, timers, ringLog, wrapVars, errorVars,
                   lastIndex>>

\* buffer(record)
RingHandle(record) ==
    /\ ring # NoRing
    /\ Len(ringLog) < MaxInserts
    /\ ring' = ringHandle(ring, record)
    /\ ringLog' = Append(ringLog, record)
    /\ last' = Returned("ringHandle")
    /\ UNCHANGED <<loggers, logHandlers, captures, clock, timers, wrapVars, errorVars,
                   lastIndex>>

\* buffer.get()
RingGet ==
    /\ ring # NoRing
    /\ last' = [Returned("ringGet") EXCEPT !.got = ringGet(ring)]
    /\ UNCHANGED <<loggers, logHandlers, captures, clock, timers, ring, ringLog, wrapVars, errorVars,
                   lastIndex>>

\* What the run of a wrapper starts from. The events are kept for one
\* outermost call and what runs inside it; `call` is the call that
\* measure() or a stopper is called by, 0 for the application.
World ==
    [captures |-> captures, clock |-> clock, timers |-> timers,
     events |-> IF stack = <<>> THEN <<>> ELSE events, ret |-> FALSE, call |-> 0]

Commit(w) ==
    /\ captures' = w.captures
    /\ timers' = w.timers
    /\ clock' = w.clock
    /\ events' = w.events

\* A call in progress; `stopper` is the measurement of a measured call, the
\* method of a deprecated one
Frame(kind, id, n, wrapped, args, stp) ==
    [kind |-> kind, id |-> id, logger |-> n, args |-> args, wrapped |-> wrapped,
     stopper |-> stp]

\* The caller's side of a call: what it called the wrapper with, at which
\* level of the wrapper's logger
Called(w, kind, id, n, args) ==
    [w EXCEPT !.events = Append(@, [kind |-> kind, ev |-> "call", call |-> id,
                                    args |-> args, at |-> loggers[n].level])]

\* The wrapped function's side of its end: how it ended
Finished(w, id, n, outcome) ==
    [w EXCEPT !.events = Append(@, [ev |-> "done", call |-> id, outcome |-> outcome,
                                    at |-> loggers[n].level])]

\* What a wrapped function is called with, and how it ends
CallArgs == {"x", "y"}

Outcomes == {[threw |-> FALSE, value |-> "result"], [threw |-> TRUE, value |-> "exception"]}

\* A function made by n.traceWrap(name, func) is called, by the application
\* or by a wrapped function that is running; it runs up to the call of func.
TraceCall(n, args) ==
    /\ n \in DOMAIN loggers
    /\ callCount < MaxCalls
    /\ LET id == callCount + 1
           r == maybeTraced(Called(World, "trace", id, n, args), loggers[n], id, args)
       IN /\ Commit(r.w)
          /\ stack' = Append(stack, Frame("trace", id, n, r.wrapped, args, 0))
          /\ callCount' = id
    /\ last' = Returned("traceWrap")
    /\ UNCHANGED <<loggers, logHandlers, ring, ringLog, now, silenceUntil, warnedAt,
                   stoppers, uniqueId, errorVars,
                   lastIndex>>

\* A function made by n.measureWrap(name, func) is called; it runs up to
\* the call of func.
MeasureCall(n, args) ==
    /\ n \in DOMAIN loggers
    /\ callCount < MaxCalls
    /\ Len(stoppers) < MaxStoppers
    /\ LET id == callCount + 1
           r == maybeMeasured(Called(World, "measure", id, n, args), stoppers, uniqueId,
                              n, id, args)
       IN /\ Commit(r.w)
          /\ stoppers' = r.stoppers
          /\ uniqueId' = r.uniqueId
          /\ stack' = Append(stack, Frame("measure", id, n, r.wrapped, args, r.stopper))
          /\ callCount' = id
    /\ last' = Returned("measureWrap")
    /\ UNCHANGED <<loggers, logHandlers, ring, ringLog, now, silenceUntil, warnedAt,
                   errorVars,
                   lastIndex>>

\* The method m decorated with @deprecated(Logger.get('')) is called, at
\* the instant `now`; the handlers take `took` ms to handle the warning.
\* deprecatedWrapper runs up to the call of the method.
DeprecatedCall(m, args, took) ==
    /\ callCount < MaxDeprecatedCalls
    /\ LET id == callCount + 1
           warns == deprecatedWarns(now, silenceUntil[m])
           start == Called(World, "deprecated", id, RootKey, args)
           warned == IF warns
                     THEN logFrom(start, loggers[RootKey], warning, 2, "warning", id)
                     ELSE start
           after == IF warns THEN now + took ELSE now
       IN /\ warns \/ took = 0
          /\ after <= MaxNow
          /\ Commit(applyFunc(warned, id, args))
          /\ now' = after
          /\ silenceUntil' = IF warns THEN [silenceUntil EXCEPT ![m] = after + SilenceWindow]
                             ELSE silenceUntil
          /\ warnedAt' = IF warned.clock > clock THEN [warnedAt EXCEPT ![m] = now]
                         ELSE warnedAt
          /\ stack' = Append(stack, Frame("deprecated", id, RootKey, warns, args, m))
          /\ callCount' = id
    /\ last' = Returned("deprecated")
    /\ UNCHANGED <<loggers, logHandlers, ring, ringLog, stoppers, uniqueId, errorVars,
                   lastIndex>>

\* The function wrapped by the innermost call in progress returns or
\* throws, and the wrapper runs to its end.
FuncExit(outcome) ==
    /\ stack # <<>>
    /\ LET f == stack[Len(stack)]
           done == Finished(World, f.id, f.logger, outcome)
           r == CASE f.kind = "trace" /\ f.wrapped ->
                        [stoppers |-> stoppers,
                         w |-> tracedExit(done, loggers[f.logger], f.id, outcome)]
                  [] f.kind = "measure" /\ f.wrapped ->
                        measuredExit(done, stoppers, f.logger, f.stopper, f.id, outcome)
                  [] OTHER -> [stoppers |-> stoppers, w |-> done]
       IN /\ Commit([r.w EXCEPT !.events = Append(@, [ev |-> "exit", call |-> f.id,
                                                      outcome |-> wrapperOutcome(outcome)])])
          /\ stoppers' = r.stoppers
    /\ stack' = SubSeq(stack, 1, Len(stack) - 1)
    /\ last' = Returned("exit")
    /\ UNCHANGED <<loggers, logHandlers, ring, ringLog, now, silenceUntil, warnedAt,
                   callCount, uniqueId, errorVars,
                   lastIndex>>

\* Time passes
Tick(ms) ==
    /\ now + ms <= MaxNow
    /\ now' = now + ms
    /\ last' = Returned("tick")
    /\ UNCHANGED <<loggers, logHandlers, captures, clock, timers, ring, ringLog,
                   silenceUntil, warnedAt, stack, events, callCount, stoppers, uniqueId,
                   errorVars,
                   lastIndex>>

\* n.measure(name)
Measure(n, name) ==
    /\ n \in DOMAIN loggers
    /\ Len(stoppers) < MaxStoppers
    /\ LET r == measure(World, stoppers, uniqueId, n, name)
       IN /\ Commit(r.w)
          /\ stoppers' = r.stoppers
          /\ uniqueId' = r.uniqueId
    /\ last' = Returned("measure")
    /\ UNCHANGED <<loggers, logHandlers, ring, ringLog, now, silenceUntil, warnedAt,
                   stack, callCount, errorVars,
                   lastIndex>>

\* The function returned by the i-th call of measure() is called
Stop(i) ==
    /\ i \in DOMAIN stoppers
    /\ LET r == stopper(World, stoppers, i)
       IN /\ Commit(r.w)
          /\ stoppers' = r.stoppers
    /\ last' = Returned("stop")
    /\ UNCHANGED <<loggers, logHandlers, ring, ringLog, now, silenceUntil, warnedAt,
                   stack, callCount, uniqueId, errorVars,
                   lastIndex>>

\* The objects the application holds
HeldObjects == {i \in DOMAIN objs : objs[i].held}

\* What the application makes its objects with
InfoLiterals ==
    {("a" :> <<"1">>) @@ ("b" :> <<"1">>), ("b" :> <<"2">>) @@ ("stack" :> <<"2">>)}

\* What an operation on errors was called with and what came of it
ReturnedFrom(op, args, threw, got, invoked) ==
    [Returned(op) EXCEPT !.path = args, !.threw = threw, !.got = got, !.invoked = invoked]

\* The application makes an object
NewObject(fields) ==
    /\ Cardinality(HeldObjects) < MaxObjects
    /\ objs' = Append(objs, [fields |-> fields, held |-> TRUE, origin |-> "literal"])
    /\ last' = ReturnedFrom("object", <<>>, FALSE, <<Len(objs) + 1>>, <<>>)
    /\ UNCHANGED <<loggers, logHandlers, captures, clock, timers, ring, ringLog, wrapVars,
                   errs,
                   lastIndex>>

\* The application sets a property of an object it holds
Mutate(o) ==
    /\ o \in HeldObjects
    /\ objs[o].fields # Spread(objs[o].fields, ("a" :> <<"changed">>))
    /\ objs' = [objs EXCEPT ![o].fields = Spread(@, ("a" :> <<"changed">>))]
    /\ last' = ReturnedFrom("mutate", <<Arg("object", o)>>, FALSE, <<>>, <<>>)
    /\ UNCHANGED <<loggers, logHandlers, captures, clock, timers, ring, ringLog, wrapVars,
                   errs,
                   lastIndex>>

\* new Error()
NewError ==
    /\ Len(errs) < MaxErrors
    /\ errs' = Append(errs, PlainError(Len(errs) + 1))
    /\ last' = ReturnedFrom("error", <<>>, FALSE, <<Len(errs) + 1>>, <<>>)
    /\ UNCHANGED <<loggers, logHandlers, captures, clock, timers, ring, ringLog, wrapVars,
                   objs,
                   lastIndex>>

\* The argument lists of new BaseError(...): up to three arguments that are
\* not strings, each the Error c, the object o or undefined, and then
\* nothing, a string or two strings
LeadingArgs(c, o) ==
    {Arg("undefined", 0)} \cup (IF c = 0 THEN {} ELSE {Arg("error", c)})
                          \cup (IF o = 0 THEN {} ELSE {Arg("object", o)})

ArgLists(c, o) ==
    LET leading == UNION {[1..n -> LeadingArgs(c, o)] : n \in 0..(MaxMessageIndex + 1)}
    IN leading \cup {Append(args, Arg("string", 0)) : args \in leading}
               \cup {args \o <<Arg("string", 0), Arg("string", 0)>> : args \in leading}

\* new BaseError(...args)
Construct(args) ==
    /\ Len(errs) < MaxErrors
    /\ Cardinality({e \in DOMAIN errs : errs[e].kind = "BaseError"}) < MaxBaseErrors
    /\ LET made == NewBaseError(objs, errs, args, "BaseError", <<>>)
       IN /\ objs' = made.objs
          /\ errs' = made.errs
          /\ last' = ReturnedFrom("construct", args, made.threw,
                                  IF made.threw THEN <<>> ELSE <<Len(made.errs)>>, <<>>)
    /\ UNCHANGED <<loggers, logHandlers, captures, clock, timers, ring, ringLog, wrapVars,
                   lastIndex>>

\* e.info(), whose result the application holds
Info(e) ==
    /\ e \in DOMAIN errs
    /\ IsBaseError(errs, e)
    /\ Cardinality(HeldObjects) < MaxObjects
    /\ objs' = Append(objs, [fields |-> BaseErrorInfo(objs, errs, e), held |-> TRUE,
                             origin |-> "info"])
    /\ last' = ReturnedFrom("info", <<Arg("error", e)>>, FALSE, <<Len(objs) + 1>>, <<>>)
    /\ UNCHANGED <<loggers, logHandlers, captures, clock, timers, ring, ringLog, wrapVars,
                   errs,
                   lastIndex>>

\* errorFromList(list)
ErrorFromList(list) ==
    /\ Len(list) >= 2 => Len(errs) < MaxErrors
    /\ LET made == errorFromList(objs, errs, list)
       IN /\ objs' = made.objs
          /\ errs' = made.errs
          /\ last' = ReturnedFrom("errorFromList", list, FALSE, made.got, <<>>)
    /\ UNCHANGED <<loggers, logHandlers, captures, clock, timers, ring, ringLog, wrapVars,
                   lastIndex>>

\* errorForEach(e, cb)
ErrorForEach(e) ==
    /\ e \in DOMAIN errs
    /\ last' = ReturnedFrom("errorForEach", <<Arg("error", e)>>, FALSE, <<>>,
                            errorForEach(errs, e))
    /\ UNCHANGED <<loggers, logHandlers, captures, clock, timers, ring, ringLog, wrapVars,
                   errorVars,
                   lastIndex>>

\* createLogRecord(level, ...args), for its details
CreateLogRecord(args) ==
    /\ last' = ReturnedFrom("createLogRecord", args, FALSE, details(objs, errs, args), <<>>)
    /\ UNCHANGED <<loggers, logHandlers, captures, clock, timers, ring, ringLog, wrapVars,
                   errorVars,
                   lastIndex>>

\* The level methods and the registry, as application code uses them.
Next ==
    \/ \E path \in PathInputs : Get(path)
    \/ \E n \in DOMAIN loggers, level \in LevelInputs : SetLevel(n, level)
    \/ \E n \in DOMAIN loggers, level \in Range(levels), nargs \in ArgCounts : Log(n, level, nargs)
    \/ \E h \in PublicHandlers : Register(h)
    \/ \E h \in PublicHandlers : Unregister(h)

Spec == Init /\ [][Next]_vars

\* The registry alone, under every order of its four operations.
NextRegistry ==
    \/ \E h \in UserHandlers : Register(h)
    \/ \E h \in UserHandlers : Unregister(h)
    \/ Capture
    \/ \E k \in DOMAIN captures : Restore(k)

SpecRegistry == Init /\ [][NextRegistry]_vars

\* The registry under captureLogging / restore, as a test uses them, with
\* level methods called on the root logger at its initial level: one level
\* that logger has disabled and one it has enabled, as a probe and with a
\* message.
CaptureLevels == {debug, info}

CaptureArgCounts == {0, 1}

\* The handler the application registers and unregisters around the captures
CaptureAppHandlers == {UserHandler(1)}

NextCapture ==
    \/ \E n \in DOMAIN loggers, level \in CaptureLevels, nargs \in CaptureArgCounts :
            Log(n, level, nargs)
    \/ \E h \in CaptureAppHandlers : Register(h)
    \/ \E h \in CaptureAppHandlers : Unregister(h)
    \/ Capture
    \/ \E k \in DOMAIN captures : Restore(k)

SpecCapture == Init /\ [][NextCapture]_vars

\* The logger tree under lookups, level assignments and level methods.
\* The string paths: the empty string, one name, two names, the leaf name of
\* the latter under the root, an empty name in the middle and at the end,
\* and a name every object inherits.
TreePaths ==
    { <<>>, <<"a">>, <<"a", Dot, "b">>, <<"b">>, <<"a", Dot, Dot, "b">>, <<"a", Dot>>,
      <<"v","a","l","u","e","O","f">> }

\* The array paths: [], ['a'] and ['a', '', 'b']
TreeArrayPaths == { <<>>, << <<"a">> >>, << <<"a">>, <<>>, <<"b">> >> }

\* The levels assigned: the root's initial level and one below it
TreeLevels == {debug, info}

NextTree ==
    \/ \E path \in TreePaths : Get(path) /\ Cardinality(DOMAIN loggers') <= MaxLoggers
    \/ \E n \in DOMAIN loggers, path \in TreePaths : ChildLogger(n, path)
    \/ \E n \in DOMAIN loggers, path \in TreeArrayPaths : ChildLoggerArray(n, path)
    \/ \E n \in DOMAIN loggers, level \in TreeLevels : SetLevel(n, level)
    \/ \E n \in DOMAIN loggers, level \in TreeLevels : SetChildLoggersLevel(n, level)
    \/ \E n \in DOMAIN loggers : Log(n, error, 1)

SpecTree == Init /\ [][NextTree]_vars

\* Handlers registered and unregistered, one of which throws, while
\* messages are logged on the root logger at a level it has disabled and
\* at one it has enabled.
ThrowingSpecHandlers == {UserHandler(1), UserHandler(2), ThrowingHandler(1)}

NextThrowing ==
    \/ \E h \in ThrowingSpecHandlers : Register(h)
    \/ \E h \in ThrowingSpecHandlers : Unregister(h)
    \/ \E level \in CaptureLevels, nargs \in CaptureArgCounts : Log(RootKey, level, nargs)

SpecThrowing == Init /\ [][NextThrowing]_vars

\* Handlers that work on the registry while a record is dispatched to
\* them, registered and unregistered by the application while messages are
\* logged on the root logger.
ReentrantHandlers ==
    {UserHandler(1), SelfUnregisteringHandler(1), RegisteringHandler(UserHandler(2)),
     UnregisteringHandler(UserHandler(1)), CapturingHandler(1), RestoringHandler(1)}

NextReentrant ==
    \/ \E h \in ReentrantHandlers : Len(logHandlers) < MaxHandlers /\ Register(h)
    \/ \E h \in ReentrantHandlers : Unregister(h)
    \/ Log(RootKey, info, 1)

SpecReentrant == Init /\ [][NextReentrant]_vars


\* Handlers registered, then captures taken and their restores called in
\* every order, each any number of times, with no other call on the
\* registry once the first capture is taken.
RestoreOrderHandlers == {UserHandler(1), UserHandler(2), consoleHandler}

NextRestoreOrder ==
    \/ \E h \in RestoreOrderHandlers : captures = <<>> /\ Register(h)
    \/ \E h \in RestoreOrderHandlers : captures = <<>> /\ Unregister(h)
    \/ Capture
    \/ \E k \in DOMAIN captures : Restore(k)

SpecRestoreOrder == Init /\ [][NextRestoreOrder]_vars


\* The filters fromLevel and forLogger, each called with records of every
\* level from the loggers 'b.c' (base.child), its descendant 'b.c.g', its
\* ancestor 'b', 'b.cS' (base.childSuffix), the unrelated 'x' and the root.
FilterRecordLoggers ==
    { <<>>, <<"b">>, <<"b", Dot, "c">>, <<"b", Dot, "c", Dot, "g">>,
      <<"b", Dot, "c", "S">>, <<"x">> }

FilterRecords ==
    {createLogRecord(name, level, 0) : name \in FilterRecordLoggers, level \in Range(levels)}

\* The names given to forLogger
FilterNames == { <<"b">>, <<"b", Dot, "c">> }

NextFilters ==
    \/ \E level \in LevelInputs, record \in FilterRecords :
            Handle(fromLevel(level, UserHandler(1)), record)
    \/ \E name \in FilterNames, record \in FilterRecords :
            Handle(forLogger(name, UserHandler(1)), record)

SpecFilters == Init /\ [][NextFilters]_vars

\* Handlers wrapped by forLogger with the names of the root logger, of 'a'
\* and of 'a.b', registered while loggers are looked up and messages are
\* logged on the loggers of the tree.
ForLoggerPaths == { <<"a">>, <<"a", Dot, "b">>, <<"b">> }

ForLoggerHandlers ==
    {forLogger(<<>>, UserHandler(1)), forLogger(<<"a">>, UserHandler(2)),
     forLogger(<<"a", Dot, "b">>, UserHandler(3))}

NextForLogger ==
    \/ \E path \in ForLoggerPaths : Get(path) /\ Cardinality(DOMAIN loggers') <= MaxLoggers
    \/ \E h \in ForLoggerHandlers : Register(h)
    \/ \E h \in ForLoggerHandlers : Unregister(h)
    \/ \E n \in DOMAIN loggers : Log(n, error, 1)

SpecForLogger == Init /\ [][NextForLogger]_vars


\* The filter forLogger with a RegExp, each wrapper called again and again
\* with records of two levels from the loggers 't', 'a-t' (a-test),
\* 'b-t.c' (base-test.child), 'x-tl' (another-testlogger), 'fixt'
\* (in-fixtest) and '-t-t'.
PatternRecordLoggers ==
    { <<"t">>, <<"a", "-", "t">>, <<"b", "-", "t", Dot, "c">>, <<"x", "-", "t", "l">>,
      <<"f", "i", "x", "t">>, <<"-", "t", "-", "t">> }

PatternRecords ==
    {createLogRecord(name, level, 0) : name \in PatternRecordLoggers, level \in {info, error}}

NextPattern ==
    \E re \in RegExps, record \in PatternRecords :
        Handle(forLoggerPattern(Pattern(re), UserHandler(1)), record)

SpecPattern == Init /\ [][NextPattern]_vars


\* Handlers wrapped by async, registered and unregistered while messages
\* are logged on the root logger and the event loop runs the timers. The
\* event loop runs every timer that is due, which is the fairness of RunTimer.
AsyncHandlers == {async(UserHandler(1)), async(UserHandler(2))}

NextAsync ==
    \/ \E h \in AsyncHandlers : Register(h)
    \/ \E h \in AsyncHandlers : Unregister(h)
    \/ Log(RootKey, info, 1)
    \/ RunTimer

SpecAsync == Init /\ [][NextAsync]_vars /\ WF_vars(RunTimer)

\* Functions wrapped with traceWrap on the root logger, called by the
\* application and by one another, while the application sets the logger's
\* level to one that enables trace and to one that does not.
TraceLevels == {trace, info}

NextTrace ==
    \/ \E args \in CallArgs : TraceCall(RootKey, args)
    \/ \E outcome \in Outcomes : FuncExit(outcome)
    \/ \E level \in TraceLevels : SetLevel(RootKey, level)

SpecTrace == Init /\ [][NextTrace]_vars

\* Measurements on the root logger, started with measure() and by functions
\* wrapped with measureWrap, with the level set to one that enables
\* performance and to one that does not. The application calls measure()
\* and the stoppers between its calls of the wrapped functions.
MeasureLevels == {performance, info}

MeasureNames == {"m"}

NextMeasure ==
    \/ stack = <<>> /\ \E name \in MeasureNames : Measure(RootKey, name)
    \/ stack = <<>> /\ \E i \in DOMAIN stoppers : Stop(i)
    \/ \E args \in CallArgs : MeasureCall(RootKey, args)
    \/ \E outcome \in Outcomes : FuncExit(outcome)
    \/ \E level \in MeasureLevels : SetLevel(RootKey, level)

SpecMeasure == Init /\ [][NextMeasure]_vars

\* Two methods decorated with @deprecated on the root logger, which has
\* warning enabled, called as time passes: one ms short of the window, or
\* the window.
TickSizes == {SilenceWindow - 1, SilenceWindow}

\* The time the handlers take to handle one warning, in ms
DispatchTimes == {0, 1}

NextDeprecated ==
    \/ \E m \in DeprecatedMethods, args \in CallArgs, took \in DispatchTimes :
            DeprecatedCall(m, args, took)
    \/ \E outcome \in Outcomes : FuncExit(outcome)
    \/ \E ms \in TickSizes : Tick(ms)

SpecDeprecated == Init /\ [][NextDeprecated]_vars

\* The Error and the object made last, 0 if there is none
LatestError == Len(errs)

LatestObject == IF HeldObjects = {} THEN 0 ELSE CHOOSE o \in HeldObjects : \A p \in HeldObjects : p <= o

\* The lists of errors the application hands to errorFromList
ErrorLists == UNION {[1..n -> DOMAIN errs] : n \in 0..MaxErrors}

\* The arguments of a level method that bear on the details: the Error made
\* last or none, then an object or none; the message follows
DetailsArgLists ==
    {first \o second \o <<Arg("string", 0)>> :
        first \in {<<>>} \cup {<<Arg("error", e)>> : e \in {LatestError} \ {0}},
        second \in {<<>>} \cup {<<Arg("object", o)>> : o \in HeldObjects}}

\* The argument lists of the documented signatures of new BaseError: a
\* message, after a cause, an info or both in either order
Signatures(c, o) ==
    {<<Arg("string", 0)>>}
        \cup (IF c = 0 THEN {} ELSE {<<Arg("error", c), Arg("string", 0)>>})
        \cup (IF o = 0 THEN {} ELSE {<<Arg("object", o), Arg("string", 0)>>})
        \cup (IF c = 0 \/ o = 0 THEN {}
              ELSE {<<Arg("error", c), Arg("object", o), Arg("string", 0)>>,
                    <<Arg("object", o), Arg("error", c), Arg("string", 0)>>})

\* BaseErrors constructed with every shape of argument list, of the Error
\* and the object made last, the objects being {}.
NextConstruct ==
    \/ NewObject(EmptyObject)
    \/ \E args \in ArgLists(LatestError, LatestObject) : Construct(args)

SpecConstruct == Init /\ [][NextConstruct]_vars

\* BaseErrors each wrapping the one made before, the cause coming before
\* the info, with the application changing the objects it holds.
NextInfo ==
    \/ \E fields \in InfoLiterals : NewObject(fields)
    \/ \E o \in HeldObjects : Mutate(o)
    \/ \E o \in HeldObjects \cup {0} :
          \E args \in Signatures(LatestError, o) :
             /\ Len(args) > 2 => args[1].t = "error"
             /\ Construct(args)
    \/ \E e \in DOMAIN errs : Info(e)

SpecInfo == Init /\ [][NextInfo]_vars

\* Errors collected with errorFromList and visited with errorForEach.
NextMultiError ==
    \/ NewError
    \/ \E list \in ErrorLists : ErrorFromList(list)
    \/ \E e \in DOMAIN errs : ErrorForEach(e)

SpecMultiError == Init /\ [][NextMultiError]_vars

\* The Errors that are not BaseErrors
PlainErrors == {e \in DOMAIN errs : errs[e].kind = "Error"}

\* new BaseError(c, o, 'message') and new BaseError(o, c, 'message')
BothOrders(c, o) ==
    {<<Arg("error", c), Arg("object", o), Arg("string", 0)>>,
     <<Arg("object", o), Arg("error", c), Arg("string", 0)>>}

\* BaseErrors constructed from one Error and one object the application
\* holds, the cause first or the info first.
NextSignatures ==
    \/ NewError
    \/ \E fields \in InfoLiterals : NewObject(fields)
    \/ \E c \in PlainErrors : \E o \in HeldObjects :
          \E args \in BothOrders(c, o) : Construct(args)

SpecSignatures == Init /\ [][NextSignatures]_vars


\* Records made from errors, each wrapping the one made before, and from
\* details objects.
NextDetails ==
    \/ \E fields \in InfoLiterals : NewObject(fields)
    \/ NewError
    \/ \E args \in Signatures(LatestError, LatestObject) : Construct(args)
    \/ \E args \in DetailsArgLists : CreateLogRecord(args)

SpecDetails == Init /\ [][NextDetails]_vars

\* One ringBuffer, made with a maxSize of at least 1, filled and read.
NextRing ==
    \/ \E maxSize \in 1..MaxRingSize : RingBuffer(maxSize)
    \/ \E record \in RingValues : RingHandle(record)
    \/ RingGet

SpecRing == Init /\ [][NextRing]_vars

\* One ringBuffer, made with a maxSize from 0 on, filled and read.
NextRingAnySize ==
    \/ \E maxSize \in 0..MaxRingSize : RingBuffer(maxSize)
    \/ \E record \in RingValues : RingHandle(record)
    \/ RingGet

SpecRingAnySize == Init /\ [][NextRingAnySize]_vars

----------------------------------------------------------------------------
(* Level methods: C1 - C5, each about the level-method call that just
   returned. A level method changes neither the tree nor the registry, so
   the logger's level and the registry are still those of the call. *)

AfterLog == last.op = "log"

LevelEnabled == loggers[last.node].level <= last.level

\* The record a dispatching call of the logger hands out.
IsRecordOfCall(record) ==
    /\ record.logger = loggers[last.node].name
    /\ record.level = last.level
    /\ record.time = clock

NothingEmitted ==
    /\ last.created = 0
    /\ last.invoked = <<>>
    /\ last.console = <<>>

\* C1: a level method called with at least one argument dispatches a record
\* iff the logger's level is at most the method's rank; on a higher logger
\* level it returns false, constructs no record and invokes no handler.
C1_DispatchIffEnabled ==
    (AfterLog /\ last.nargs > 0) =>
        /\ (last.created = 1 /\ last.invoked # <<>>) <=> LevelEnabled
        /\ ~LevelEnabled => (last.ret = FALSE /\ NothingEmitted)

C1_Witness ==
    /\ AfterLog
    /\ last.nargs > 0
    /\ loggers[last.node].level > last.level
    /\ last.ret = FALSE

\* C2: an enabled call with at least one argument builds exactly one record,
\* hands that one record once to every registered handler, in registration
\* order, and returns true.
C2_OneRecordToEveryHandlerInOrder ==
    (AfterLog /\ last.nargs > 0 /\ LevelEnabled) =>
        /\ last.created = 1
        /\ last.ret = TRUE
        /\ logHandlers # <<>> =>
              /\ Len(last.invoked) = Len(logHandlers)
              /\ \A i \in DOMAIN logHandlers :
                    /\ last.invoked[i].handler = logHandlers[i]
                    /\ IsRecordOfCall(last.invoked[i].record)

C2_Witness ==
    /\ AfterLog
    /\ last.ret = TRUE
    /\ Len(logHandlers) >= 2
    /\ Len(last.invoked) = Len(logHandlers)

\* C3: a level method called without arguments constructs and dispatches
\* nothing and invokes no handler; it returns true iff the level is enabled,
\* and so does every call of a level method, whatever its arguments.
C3_ProbeReturnsEnabled ==
    AfterLog =>
        /\ last.ret = LevelEnabled
        /\ last.nargs = 0 => NothingEmitted

C3_Witness ==
    /\ AfterLog
    /\ last.nargs = 0
    /\ last.ret = TRUE

ConsoleCalls == {i \in DOMAIN last.invoked : last.invoked[i].handler = consoleHandler}

ExpectedConsoleMethod(level) ==
    IF level = error THEN "error"
    ELSE IF level = warning THEN "warn"
    ELSE IF level = info THEN "info"
    ELSE "log"

----------------------------------------------------------------------------
(* Handler registry: C6 - C10 *)

NoDuplicates(arr) == \A i, j \in DOMAIN arr : arr[i] = arr[j] => i = j

\* arr with every occurrence of h left out, the rest in order
Without(arr, h) == SelectSeq(arr, LAMBDA x : x # h)

\* C6: the registry never holds a handler twice; registerLogHandler(h)
\* appends h iff it is absent, unregisterLogHandler(h) removes its single
\* occurrence iff it is present, and the other handlers keep their order.
C6_RegistryIsDuplicateFreeList ==
    [][/\ NoDuplicates(logHandlers) /\ NoDuplicates(logHandlers')
       /\ \A h \in UserHandlers :
            /\ Register(h) =>
                  logHandlers' = IF h \in Range(logHandlers) THEN logHandlers
                                 ELSE logHandlers \o <<h>>
            /\ Unregister(h) =>
                  /\ logHandlers' = Without(logHandlers, h)
                  /\ Len(logHandlers') =
                        IF h \in Range(logHandlers) THEN Len(logHandlers) - 1
                        ELSE Len(logHandlers)]_vars

C6_Witness ==
    /\ last.op = "unregister"
    /\ Len(logHandlers) >= 2
    /\ \E h \in UserHandlers : h \notin Range(logHandlers)

\* C7: when captureLogging() returns, the registry holds the new capturing
\* handler and nothing else, whatever it held before.
C7_CaptureLeavesOnlyCapturingHandler ==
    [][last'.op = "capture" =>
          /\ Len(captures') = Len(captures) + 1
          /\ logHandlers' = <<CaptureHandler(Len(captures'))>>
          /\ CaptureHandler(Len(captures')) \notin Range(logHandlers)
          /\ \A h \in Range(logHandlers) : h \notin Range(logHandlers')]_vars

C7_Witness ==
    /\ last.op = "capture"
    /\ Len(logHandlers) = 1
    /\ Len(captures[Len(captures)].oldHandlers) >= 2

\* C8: restore() called when no registry operation ran since its
\* captureLogging() leaves the registry equal to the list held just before
\* that captureLogging(): same handlers, same order, no capturing handler.
C8_RestoreGivesBackTheList ==
    [][\A k \in DOMAIN captures :
          (last'.op = "restore" /\ captures[k].untouched /\ ~captures[k].restored
              /\ Restore(k)) =>
              /\ logHandlers' = captures[k].oldHandlers
              /\ CaptureHandler(k) \notin Range(logHandlers')]_vars

C8_Witness ==
    /\ last.op = "restore"
    /\ \E k \in DOMAIN captures :
          /\ captures[k].restored
          /\ captures[k].untouched
          /\ Len(captures[k].oldHandlers) >= 2
          /\ logHandlers = captures[k].oldHandlers

\* Capture k is the innermost capture not yet restored, with only nested
\* captures, restored in reverse order, between its captureLogging() and now.
Innermost(k) ==
    /\ captures[k].lifo
    /\ ~captures[k].restored
    /\ captures[k].inner = <<>>

\* C9: for captures nested one inside the other and restored in reverse
\* order, each restore() leaves the registry equal to the list held just
\* before its captureLogging(); a record dispatched while capture k is the
\* innermost one not yet restored reaches the records array of k and nothing
\* else.
C9_NestedCapturesRestoreAsAStack ==
    [][\A k \in DOMAIN captures :
          /\ (last'.op = "restore" /\ Innermost(k) /\ Restore(k)) =>
                logHandlers' = captures[k].oldHandlers
          /\ (last'.op = "log" /\ last'.created = 1 /\ Innermost(k)) =>
                /\ Len(last'.invoked) = 1
                /\ last'.invoked[1].handler = CaptureHandler(k)
                /\ last'.console = <<>>
                /\ captures'[k].records = Append(captures[k].records, last'.invoked[1].record)
                /\ \A j \in DOMAIN captures \ {k} : captures'[j] = captures[j]]_vars

\* An outer capture restored after the capture nested in it.
C9_Witness ==
    /\ last.op = "restore"
    /\ \E k \in DOMAIN captures :
          /\ captures[k].restored
          /\ captures[k].lifo
          /\ ~captures[k].untouched
          /\ captures[k].oldHandlers # <<>>
          /\ logHandlers = captures[k].oldHandlers
          /\ \E j \in DOMAIN captures : j > k /\ captures[j].records # <<>>

\* C10: every record dispatched while a capture's handler is registered is
\* appended once to that capture's records array, in dispatch order; once
\* its restore() has run, no log call appends to that array.
C10_CaptureRecordsWhileActiveOnly ==
    [][(last'.op = "log" /\ last'.created = 1) =>
          \A k \in DOMAIN captures :
              /\ CaptureHandler(k) \in Range(logHandlers) =>
                    \E i \in DOMAIN last'.invoked :
                        captures'[k].records = Append(captures[k].records, last'.invoked[i].record)
              /\ CaptureHandler(k) \notin Range(logHandlers) =>
                    captures'[k].records = captures[k].records
              /\ captures[k].restored =>
                    captures'[k].records = captures[k].records]_vars

\* The part of C10 that the code keeps: records reach a capture's array
\* exactly while its handler is in the registry.
C10_RecordsWhileRegistered ==
    [][(last'.op = "log" /\ last'.created = 1) =>
          \A k \in DOMAIN captures :
              /\ CaptureHandler(k) \in Range(logHandlers) =>
                    \E i \in DOMAIN last'.invoked :
                        captures'[k].records = Append(captures[k].records, last'.invoked[i].record)
              /\ CaptureHandler(k) \notin Range(logHandlers) =>
                    captures'[k].records = captures[k].records]_vars

----------------------------------------------------------------------------
(* The logger tree: C11 - C15. *)

IsLookup(op) == op \in {"get", "childLogger", "childLoggerArray"}

\* C11: a node created by a lookup starts with the level its parent has at
\* that moment, the lookup changing no level of a node that existed; and an
\* assignment to one node's level gives that node the level and changes the
\* level of no other node, so a child keeps its level when its parent is
\* reassigned.
C11_ChildStartsAtParentLevelThenIndependent ==
    [][/\ IsLookup(last'.op) =>
            /\ \A k \in DOMAIN loggers :
                    k \in DOMAIN loggers' /\ loggers'[k].level = loggers[k].level
            /\ \A k \in DOMAIN loggers' \ DOMAIN loggers :
                    loggers'[k].level = loggers'[Parent(k)].level
       /\ last'.op = "setLevel" =>
            /\ loggers'[last'.self].level = last'.level
            /\ \A k \in DOMAIN loggers \ {last'.self} :
                    k \in DOMAIN loggers' /\ loggers'[k].level = loggers[k].level]_vars

\* A parent has just been assigned a level and its child has another one.
C11_Witness ==
    /\ last.op = "setLevel"
    /\ \E k \in Children(loggers, last.self) : loggers[k].level # loggers[last.self].level

\* C12: n.setChildLoggersLevel(v) returns n and leaves n and every node
\* below it with level v; the nodes outside n's subtree keep their levels,
\* and the tree keeps its nodes and their names.
C12_SetChildLoggersLevelSetsTheSubtree ==
    [][last'.op = "setChildLoggersLevel" =>
            /\ last'.node = last'.self /\ ~last'.threw
            /\ DOMAIN loggers' = DOMAIN loggers
            /\ \A k \in DOMAIN loggers :
                    /\ loggers'[k].name = loggers[k].name
                    /\ loggers'[k].level = IF IsPrefix(last'.self, k) THEN last'.level
                                           ELSE loggers[k].level]_vars

\* The call was made on a node that has a child and is not the root, and the
\* root has another level than the one given.
C12_Witness ==
    /\ last.op = "setChildLoggersLevel"
    /\ last.self # RootKey
    /\ Children(loggers, last.self) # {}
    /\ loggers[RootKey].level # last.level

\* A string path has an empty component: it starts or ends with a dot, or
\* has two dots in a row.
HasEmptyComponent(str) ==
    /\ str # <<>>
    /\ \/ str[1] = Dot
       \/ str[Len(str)] = Dot
       \/ \E i \in 1..(Len(str) - 1) : str[i] = Dot /\ str[i + 1] = Dot

IsSegment(str) == str # <<>> /\ \A i \in DOMAIN str : str[i] # Dot

\* C13: for a path p without an empty component Logger.get(p) returns a
\* node named p; no two nodes of the tree have the same name, so two
\* lookups return the same node exactly when their paths are equal and the
\* same leaf name under two parents gives two nodes; and
\* parent.childLogger(segment) returns the node Logger.get returns for the
\* parent's name joined with the segment.
C13_IdentityIsTheDottedPath ==
    /\ \A j, k \in DOMAIN loggers : loggers[j].name = loggers[k].name => j = k
    /\ (last.op = "get" /\ ~HasEmptyComponent(last.path)) =>
            /\ ~last.threw
            /\ last.node \in DOMAIN loggers
            /\ loggers[last.node].name = last.path
    /\ (last.op = "childLogger" /\ IsSegment(last.path)) =>
            /\ ~last.threw
            /\ last.node \in DOMAIN loggers
            /\ LET viaGet == childLogger(loggers, RootKey,
                                         QualifiedName(loggers[last.self].name, last.path))
               IN ~viaGet.threw /\ viaGet.node = last.node

\* An array path has an empty component
HasEmptyName(arr) == \E i \in DOMAIN arr : arr[i] = <<>>

\* C14: childLogger, and so Logger.get, throws when the path has an empty
\* component, as a string or as an array, and returns the receiver for the
\* empty string and for the empty array.
C14_EmptyComponentThrows ==
    /\ last.op \in {"get", "childLogger"} =>
            /\ last.path = <<>> => ~last.threw /\ last.node = last.self
            /\ HasEmptyComponent(last.path) => last.threw
    /\ last.op = "childLoggerArray" =>
            /\ last.path = <<>> => ~last.threw /\ last.node = last.self
            /\ HasEmptyName(last.path) => last.threw

\* A lookup of 'a..b' or of ['a', '', 'b'] has just thrown.
C14_Witness ==
    /\ last.threw
    /\ \/ last.op \in {"get", "childLogger"} /\ last.path = <<"a", Dot, Dot, "b">>
       \/ last.op = "childLoggerArray" /\ last.path = << <<"a">>, <<>>, <<"b">> >>

\* C15: no step removes a node or puts another object in its place: every
\* node stays in the tree under its key path with its name, a lookup leaves
\* the nodes it finds as they are, and it returns the node the tree holds
\* under the path, which is reached from the root through nodes of the tree.
C15_NodesAreNeverRemovedOrReplaced ==
    [][/\ DOMAIN loggers \subseteq DOMAIN loggers'
       /\ \A k \in DOMAIN loggers : loggers'[k].name = loggers[k].name
       /\ \A k \in DOMAIN loggers' : k = RootKey \/ Parent(k) \in DOMAIN loggers'
       /\ IsLookup(last'.op) =>
            /\ \A k \in DOMAIN loggers : loggers'[k] = loggers[k]
            /\ ~last'.threw =>
                    /\ last'.node \in DOMAIN loggers'
                    /\ last'.node = last'.self \o (IF last'.op = "childLoggerArray"
                                                   THEN last'.path
                                                   ELSE IF last'.path = <<>> THEN <<>>
                                                   ELSE Split(last'.path))]_vars

\* A lookup has just returned a node that an earlier lookup created: its
\* level is no longer the level of its parent.
C15_Witness ==
    /\ last.op = "get" /\ ~last.threw
    /\ last.node # RootKey
    /\ loggers[last.node].level # loggers[Parent(last.node)].level

----------------------------------------------------------------------------
(* The handler combinators: C16 - C20. *)

\* A handler of the given kind has just been called by the application;
\* last.invoked[1] is that call and the rest are the calls it made.
AfterHandle(kind) == last.op = "handle" /\ last.invoked[1].handler.kind = kind

\* The one call of the wrapped handler with the record the wrapper received
Forwarded(call) == <<[handler |-> call.handler.handler, record |-> call.record]>>

\* C16: the handler made by fromLevel(t, h), called with a record, calls h
\* exactly once with that record when the record's level is at least t, and
\* does not call h when it is below t.
C16_FromLevelForwardsAtOrAboveThreshold ==
    AfterHandle("fromLevel") =>
        LET call == last.invoked[1]
        IN Tail(last.invoked) = IF call.record.level >= call.handler.level
                                THEN Forwarded(call) ELSE <<>>

\* A record whose level is the threshold itself has been forwarded.
C16_Witness ==
    /\ AfterHandle("fromLevel")
    /\ last.invoked[1].record.level = last.invoked[1].handler.level
    /\ Len(last.invoked) = 2

\* C17: the handler made by forLogger(name, h) with a literal name calls h,
\* once and with the record it received, exactly when the record's logger
\* is the named logger or one of its descendants in the tree, that is when
\* the names that make up `name` are the first names of record.logger; so
\* not for 'b.cS' nor for the ancestor 'b' when the name is 'b.c'.
C17_ForLoggerForwardsNameAndDescendants ==
    AfterHandle("forLogger") =>
        LET call == last.invoked[1]
        IN Tail(last.invoked) = IF IsPrefix(Split(call.handler.name), Split(call.record.logger))
                                THEN Forwarded(call) ELSE <<>>

\* forLogger('b.c', h) has been called with a record of 'b.cS' and has not
\* called h.
C17_Witness ==
    /\ AfterHandle("forLogger")
    /\ last.invoked[1].handler.name = <<"b", Dot, "c">>
    /\ last.invoked[1].record.logger = <<"b", Dot, "c", "S">>
    /\ Len(last.invoked) = 1

IsAsyncCall(call) == call.handler.kind = "async"

\* The callbacks that the wrapper calls of a dispatch hand to setTimeout
AsyncTasks(invoked) ==
    LET calls == SelectSeq(invoked, IsAsyncCall)
    IN [i \in DOMAIN calls |-> [handler |-> calls[i].handler.handler,
                                record |-> calls[i].record]]

\* The call of h for the record constructed at instant t is pending
Pending(h, t) ==
    \E i \in DOMAIN timers : timers[i].handler = h /\ timers[i].record.time = t

\* The event loop has just called h with the record constructed at instant t
Delivered(h, t) ==
    /\ last.op = "timer"
    /\ Len(last.invoked) = 1
    /\ last.invoked[1].handler = h /\ last.invoked[1].record.time = t

\* C18: a log call invokes the async wrappers and never the handlers they
\* wrap, and leaves one pending call per wrapper invoked, with the record of
\* the call; registering and unregistering cancel no pending call; the
\* event loop makes each pending call once, with its handler and record;
\* and every pending call is made in the end.
C18_AsyncDeliversLaterExactlyOnce ==
    /\ [][/\ last'.op = "log" =>
                /\ \A i \in DOMAIN last'.invoked : last'.invoked[i].handler \notin UserHandlers
                /\ timers' = timers \o AsyncTasks(last'.invoked)
          /\ last'.op \in {"register", "unregister"} => timers' = timers
          /\ last'.op = "timer" =>
                /\ timers # <<>>
                /\ timers' = Tail(timers)
                /\ last'.invoked = <<Head(timers)>>]_vars
    /\ \A h \in UserHandlers : \A t \in 1..MaxRecords : Pending(h, t) ~> Delivered(h, t)

\* A record has just been delivered to a handler whose wrapper is no longer
\* registered.
C18_Witness ==
    /\ last.op = "timer"
    /\ last.invoked[1].handler = UserHandler(1)
    /\ \A i \in DOMAIN logHandlers : logHandlers[i] # async(UserHandler(1))

Min(a, b) == IF a < b THEN a ELSE b

\* The last n elements of a sequence
LastN(seq, n) == SubSeq(seq, Len(seq) - n + 1, Len(seq))

\* C20: a ringBuffer of capacity n >= 1 that has been handed k values has
\* size min(k, n), and get() returns the last min(k, n) of them, oldest
\* first; get() leaves the buffer as it was.
C20_RingBufferKeepsTheLastValues ==
    /\ [](ring # NoRing =>
            (LET kept == LastN(ringLog, Min(Len(ringLog), ring.maxSize))
             IN /\ ring.size = Min(Len(ringLog), ring.maxSize)
                /\ ringGet(ring) = kept
                /\ (last.op = "ringGet" => last.got = kept)))
    /\ [][last'.op = "ringGet" => ring' = ring]_vars

\* get() has just been called on a buffer of capacity 2 that was handed
\* three values, the oldest of which differs from the next.
C20_Witness ==
    /\ last.op = "ringGet"
    /\ ring.maxSize = 2
    /\ Len(ringLog) = 3
    /\ ringLog[1] # ringLog[2]

----------------------------------------------------------------------------
(* The wrappers and the decorators *)

\* The events of the call id that satisfy Test
EventsOf(evs, id, Test(_)) == SelectSeq(evs, LAMBDA e : e.call = id /\ Test(e))

IsRecord(e) == e.ev = "log" /\ e.emitted

IsLogCall(e) == e.ev = "log"

IsInvoke(e) == e.ev = "invoke"

IsCall(e) == e.ev = "call"

IsDone(e) == e.ev = "done"

IsExit(e) == e.ev = "exit"

\* The positions of the events of the call id that satisfy Test
PositionsOf(evs, id, Test(_)) == {i \in DOMAIN evs : evs[i].call = id /\ Test(evs[i])}

\* A step that is one call of the @deprecated method m
IsDeprecatedCall(m) ==
    /\ last'.op = "deprecated"
    /\ callCount' = callCount + 1
    /\ stack'[Len(stack')].stopper = m

WarningsOfStep == Len(EventsOf(events', callCount', IsRecord))

\* The longest the handlers take to handle a warning
MaxDispatchTime == CHOOSE took \in DispatchTimes : \A other \in DispatchTimes : other <= took

\* C21 as stated: a call of a @deprecated method at the instant t emits
\* exactly one warning record when it is the first call of the method or t is
\* at least 1000 ms after the instant of the previously emitted warning, and
\* no record otherwise.
C21_WarnsIffWindowSinceLastWarning ==
    [][\A m \in DeprecatedMethods :
         IsDeprecatedCall(m) =>
            WarningsOfStep = IF \/ warnedAt[m] = MinusInfinity
                                \/ now >= warnedAt[m] + SilenceWindow
                             THEN 1 ELSE 0]_vars

\* C21, amended: the window is counted from the instant the handlers were
\* done with the previous warning. A call of a @deprecated method emits one
\* warning record when it is the first call of the method or comes at least
\* 1000 ms after that instant, and no record otherwise; so two warnings of
\* one method are never less than 1000 ms apart, and a call that comes at
\* least 1000 ms plus the handlers' time after the last warning always warns.
C21_WarnsIffWindowSinceWarningWasHandled ==
    [][\A m \in DeprecatedMethods :
         IsDeprecatedCall(m) =>
            /\ WarningsOfStep \in {0, 1}
            /\ warnedAt[m] = MinusInfinity => WarningsOfStep = 1
            /\ (warnedAt[m] # MinusInfinity /\ now < warnedAt[m] + SilenceWindow)
                  => WarningsOfStep = 0
            /\ (warnedAt[m] # MinusInfinity
                /\ now >= warnedAt[m] + SilenceWindow + MaxDispatchTime)
                  => WarningsOfStep = 1
            /\ WarningsOfStep = 1 <=> (\/ silenceUntil[m] = MinusInfinity
                                       \/ now >= silenceUntil[m])
            /\ WarningsOfStep = 1 =>
                  /\ warnedAt'[m] = now
                  /\ \E took \in DispatchTimes :
                        silenceUntil'[m] = now + took + SilenceWindow
            /\ \A other \in DeprecatedMethods \ {m} :
                  /\ warnedAt'[other] = warnedAt[other]
                  /\ silenceUntil'[other] = silenceUntil[other]]_vars

\* The second call of a method, the only one called, has warned again
C21_Witness ==
    /\ last.op = "deprecated"
    /\ stack # <<>>
    /\ LET f == stack[Len(stack)]
       IN /\ f.id = 2
          /\ f.wrapped
          /\ warnedAt[f.stopper] >= SilenceWindow
          /\ \A other \in DeprecatedMethods \ {f.stopper} :
                silenceUntil[other] = MinusInfinity

\* C22: every call of a @deprecated method invokes the original method once,
\* with the arguments of the call, and hands its caller what the method
\* returned or threw, whether or not the call warned.
C22_DeprecatedDelegatesEveryCall ==
    \A i \in DOMAIN events :
        /\ (events[i].ev = "call" /\ events[i].kind = "deprecated") =>
              \E j \in PositionsOf(events, events[i].call, IsInvoke) :
                  /\ j > i
                  /\ events[j].args = events[i].args
                  /\ PositionsOf(events, events[i].call, IsInvoke) = {j}
        /\ events[i].ev = "exit" =>
              /\ i > 1
              /\ events[i - 1].ev = "done"
              /\ events[i - 1].call = events[i].call
              /\ events[i].outcome = events[i - 1].outcome
              /\ PositionsOf(events, events[i].call, IsExit) = {i}
              /\ PositionsOf(events, events[i].call, IsInvoke) # {}

\* A call that warned has returned what the method returned, and a call
\* that did not warn has thrown what the method threw
C22_Witness ==
    /\ \E i, j \in DOMAIN events :
          /\ events[i].ev = "exit" /\ ~events[i].outcome.threw
          /\ events[j].ev = "log" /\ events[j].emitted /\ events[j].call = events[i].call
    /\ \E i \in DOMAIN events :
          /\ events[i].ev = "exit" /\ events[i].outcome.threw
          /\ EventsOf(events, events[i].call, IsRecord) = <<>>

\* What an event is: the method called on the logger, or the kind of event
Tag(e) == IF e.ev = "log" THEN e.tag ELSE e.ev

IsAny(e) == TRUE

\* The position of the event of the call id with the tag
PositionOf(evs, id, tag) == CHOOSE i \in DOMAIN evs : evs[i].call = id /\ Tag(evs[i]) = tag

\* The events of the call id, and their tags
CallEvents(id) == EventsOf(events, id, IsAny)

CallTags(id) == [k \in DOMAIN CallEvents(id) |-> Tag(CallEvents(id)[k])]

IsTraceCall(e) == e.ev = "call" /\ e.kind = "trace"

\* C23: a function made by traceWrap, called while trace is disabled,
\* invokes the wrapped function once with the arguments of the call and
\* hands on what it returned or threw; it emits no record and calls nothing
\* on the logger but trace() once, with no argument.
C23_DisabledTraceIsOneProbe ==
    \A i \in DOMAIN events :
        (IsTraceCall(events[i]) /\ events[i].at > trace) =>
            LET id == events[i].call
                logs == EventsOf(events, id, IsLogCall)
                invocations == PositionsOf(events, id, IsInvoke)
            IN /\ Len(logs) = 1
               /\ logs[1].tag = "probe" /\ logs[1].level = trace /\ logs[1].nargs = 0
               /\ ~logs[1].emitted
               /\ \E j \in invocations :
                     /\ invocations = {j}
                     /\ j > i
                     /\ events[j].args = events[i].args
               /\ \A k \in PositionsOf(events, id, IsExit) :
                     /\ events[k - 1].ev = "done" /\ events[k - 1].call = id
                     /\ events[k].outcome = events[k - 1].outcome

\* A call made with trace disabled has ended after trace was enabled
C23_Witness ==
    \E i, k \in DOMAIN events :
        /\ IsTraceCall(events[i]) /\ events[i].at > trace
        /\ events[k].ev = "done" /\ events[k].call = events[i].call
        /\ events[k].at <= trace
        /\ events[Len(events)].ev = "exit" /\ events[Len(events)].call = events[i].call

\* The call id was made and has ended with trace enabled
TracedThroughout(id) ==
    /\ \E i \in DOMAIN events : IsTraceCall(events[i]) /\ events[i].call = id
    /\ \A i \in DOMAIN events :
          (events[i].call = id /\ events[i].ev \in {"call", "done"}) => events[i].at <= trace
    /\ \E i \in DOMAIN events : events[i].call = id /\ events[i].ev = "exit"

ExitTag(id) == IF CallEvents(id)[5].outcome.threw THEN "THROWS" ELSE "RETURNS"

\* C24: a function made by traceWrap, called while trace is enabled, emits
\* an entry record, then invokes the wrapped function once, then emits one
\* exit record: RETURNS when the function returned, and its result is handed
\* on, THROWS when it threw, and the exception is thrown on. The records of
\* a traced call made by the wrapped function lie between the entry and the
\* exit record of the outer call.
C24_EnabledTraceBracketsTheCall ==
    /\ \A i \in DOMAIN events :
          (IsTraceCall(events[i]) /\ events[i].at <= trace) =>
              LET E == CallEvents(events[i].call)
                  T == CallTags(events[i].call)
              IN /\ Len(E) >= 4
                 /\ SubSeq(T, 1, 4) = <<"call", "probe", "entry", "invoke">>
                 /\ ~E[2].emitted /\ E[3].emitted
                 /\ E[4].args = E[1].args
                 /\ Len(E) > 4 =>
                       /\ Len(E) = 7
                       /\ T[5] = "done" /\ T[7] = "exit"
                       /\ T[6] = ExitTag(events[i].call)
                       /\ E[5].at <= trace => E[6].emitted
                       /\ E[7].outcome = E[5].outcome
    /\ \A outer, inner \in 1..callCount :
          (/\ TracedThroughout(outer) /\ TracedThroughout(inner)
           /\ PositionOf(events, outer, "invoke") < PositionOf(events, inner, "call")
           /\ PositionOf(events, inner, "call") < PositionOf(events, outer, "done")) =>
              /\ PositionOf(events, outer, "entry") < PositionOf(events, inner, "entry")
              /\ PositionOf(events, inner, "entry") < PositionOf(events, inner, ExitTag(inner))
              /\ PositionOf(events, inner, ExitTag(inner)) < PositionOf(events, outer, ExitTag(outer))

\* A traced call that threw, in which a traced call was made that returned
C24_Witness ==
    \E outer, inner \in 1..callCount :
        /\ TracedThroughout(outer) /\ TracedThroughout(inner)
        /\ PositionOf(events, outer, "invoke") < PositionOf(events, inner, "call")
        /\ PositionOf(events, inner, "call") < PositionOf(events, outer, "done")
        /\ ExitTag(outer) = "THROWS" /\ ExitTag(inner) = "RETURNS"
        /\ Len(EventsOf(events, outer, IsRecord)) = 2
        /\ Len(EventsOf(events, inner, IsRecord)) = 2

\* A step that is one call of measure() by the application
IsMeasure == last'.op = "measure" /\ Len(stoppers') = Len(stoppers) + 1

PerformanceEnabled(level) == level <= performance

\* C25: measure(name) emits no record. The first call of the stopper of a
\* measurement started with performance enabled emits one performance
\* record (performance being enabled then too); its later calls emit
\* nothing. A stopper leaves every other measurement as it was, under the
\* same name too, each measurement having a name of its own for its timer.
\* When performance is disabled as measure() is called no timer is started
\* and the stopper never emits.
C25_MeasureEmitsOnceOnFirstStop ==
    [][/\ IsMeasure =>
             LET new == stoppers'[Len(stoppers')]
             IN /\ clock' = clock
                /\ uniqueId' = IF PerformanceEnabled(new.at) THEN uniqueId + 1 ELSE uniqueId
                /\ new.real <=> PerformanceEnabled(new.at)
                /\ \A j \in DOMAIN stoppers :
                      /\ stoppers'[j] = stoppers[j]
                      /\ (new.real /\ stoppers[j].real) =>
                            new.uniqueName # stoppers[j].uniqueName
       /\ \A i \in DOMAIN stoppers :
             Stop(i) =>
                /\ clock' - clock =
                      IF /\ PerformanceEnabled(stoppers[i].at)
                         /\ ~stoppers[i].called
                         /\ PerformanceEnabled(loggers[stoppers[i].logger].level)
                      THEN 1 ELSE 0
                /\ clock' > clock =>
                      /\ events'[Len(events')].level = performance
                      /\ events'[Len(events')].emitted
                /\ stoppers'[i].called
                /\ \A j \in DOMAIN stoppers \ {i} : stoppers'[j] = stoppers[j]]_vars

\* Two measurements under one name, started with performance enabled, have
\* each emitted their record
C25_Witness ==
    /\ last.op = "stop"
    /\ callCount = 0
    /\ Len(stoppers) = 2
    /\ \A i \in DOMAIN stoppers : stoppers[i].called /\ PerformanceEnabled(stoppers[i].at)
    /\ stoppers[1].name = stoppers[2].name
    /\ clock = 2

IsMeasuredCall(e) == e.ev = "call" /\ e.kind = "measure"

\* C26: a function made by measureWrap, called with performance enabled,
\* invokes the wrapped function once; when the function returns, one
\* performance record is emitted; when it throws, one record carrying the
\* error and then one timing record are emitted and the exception is thrown
\* on. Called with performance disabled, it invokes the wrapped function
\* and measure() is not called.
C26_MeasureWrapEmitsTheTiming ==
    \A i \in DOMAIN events :
        IsMeasuredCall(events[i]) =>
            LET id == events[i].call
                E == CallEvents(id)
                T == CallTags(id)
                records == EventsOf(events, id, IsRecord)
            IN IF PerformanceEnabled(events[i].at)
               THEN /\ Len(E) >= 4
                    /\ SubSeq(T, 1, 4) = <<"call", "probe", "measure", "invoke">>
                    /\ E[4].args = E[1].args
                    /\ Len(E) = 4 => records = <<>>
                    /\ Len(E) > 4 =>
                          /\ T[5] = "done"
                          /\ SubSeq(T, 6, Len(T)) =
                                IF E[5].outcome.threw THEN <<"error", "timing", "exit">>
                                ELSE <<"timing", "exit">>
                          /\ E[Len(E)].outcome = E[5].outcome
                          /\ PerformanceEnabled(E[5].at) =>
                                Len(records) = IF E[5].outcome.threw THEN 2 ELSE 1
                          /\ \A k \in DOMAIN records : records[k].level = performance
               ELSE /\ Len(E) >= 3
                    /\ SubSeq(T, 1, 3) = <<"call", "probe", "invoke">>
                    /\ E[3].args = E[1].args
                    /\ records = <<>>
                    /\ Len(E) > 3 =>
                          /\ SubSeq(T, 4, Len(T)) = <<"done", "exit">>
                          /\ E[5].outcome = E[4].outcome

\* A measured call that threw and emitted its two records, in which a
\* measured call was made that returned and emitted its one
C26_Witness ==
    \E outer, inner \in 1..callCount :
        /\ outer < inner
        /\ Len(CallEvents(outer)) = 8 /\ Len(CallEvents(inner)) = 7
        /\ IsMeasuredCall(CallEvents(outer)[1]) /\ IsMeasuredCall(CallEvents(inner)[1])
        /\ Len(EventsOf(events, outer, IsRecord)) = 2
        /\ Len(EventsOf(events, inner, IsRecord)) = 1
        /\ CallEvents(outer)[5].outcome.threw

----------------------------------------------------------------------------
(* Errors and the details of a record: C27 - C30, each about the operation
   that just returned. *)

\* The Error and the details object among the arguments of a level method
ErrorArgument(args) == IF args # <<>> /\ args[1].t = "error" THEN args[1].ref ELSE 0

DetailsArgument(args) ==
    LET rest == IF ErrorArgument(args) # 0 THEN Tail(args) ELSE args
    IN IF rest # <<>> /\ rest[1].t = "object" THEN rest[1].ref ELSE 0

PropertiesOf(o) == IF o = 0 THEN EmptyObject ELSE objs[o].fields

\* C27: the details of a record made from an Error have the key stack with
\* the error's full stack, the properties of the error's merged info, and
\* the properties of the details object, a details property winning over an
\* info property and an info property over the stack. Without an Error the
\* details are a new object with the properties of the details object, never
\* that object itself, or undefined when there is none.
C27_DetailsMergeStackInfoAndDetails ==
    last.op = "createLogRecord" =>
        LET err == ErrorArgument(last.path)
            explicit == PropertiesOf(DetailsArgument(last.path))
            merged == errorInfo(objs, errs, err)
        IN IF err # 0
           THEN /\ Len(last.got) = 1
                /\ last.got[1].ref \notin DOMAIN objs
                /\ DOMAIN last.got[1].fields =
                      {"stack"} \cup DOMAIN merged \cup DOMAIN explicit
                /\ \A k \in DOMAIN last.got[1].fields :
                      last.got[1].fields[k] =
                         IF k \in DOMAIN explicit THEN explicit[k]
                         ELSE IF k \in DOMAIN merged THEN merged[k]
                         ELSE fullStack(errs, err)
           ELSE IF DetailsArgument(last.path) # 0
           THEN /\ Len(last.got) = 1
                /\ last.got[1].ref \notin DOMAIN objs
                /\ last.got[1].fields = explicit
           ELSE last.got = <<>>

\* A record made from an error that has a cause and whose info has the key
\* stack, and from a details object with a property that the info has with
\* another value
C27_Witness ==
    /\ last.op = "createLogRecord"
    /\ ErrorArgument(last.path) # 0
    /\ DetailsArgument(last.path) # 0
    /\ cause(errs, ErrorArgument(last.path)) # 0
    /\ "stack" \in DOMAIN errorInfo(objs, errs, ErrorArgument(last.path))
    /\ \E k \in DOMAIN PropertiesOf(DetailsArgument(last.path)) :
          /\ k \in DOMAIN errorInfo(objs, errs, ErrorArgument(last.path))
          /\ PropertiesOf(DetailsArgument(last.path))[k] #
                errorInfo(objs, errs, ErrorArgument(last.path))[k]

RECURSIVE CauseChain(_)
\* The BaseErrors from e inwards, as long as the cause is a BaseError
CauseChain(e) ==
    IF IsBaseError(errs, errs[e].cause) THEN <<e>> \o CauseChain(errs[e].cause) ELSE <<e>>

\* The links of the chain of e that were given an info with the key k
LinksWith(e, k) == {i \in DOMAIN CauseChain(e) : k \in DOMAIN errs[CauseChain(e)[i]].given}

\* C28: info() of a BaseError has the keys of the infos its chain of
\* BaseErrors was constructed with, each with the value of the link nearest
\* to the outermost that has the key, whatever the application has done
\* since to the objects it passed in or was handed by info(): no object the
\* application holds is the info an error keeps.
C28_InfoMergesTheChainOuterWins ==
    \A e \in DOMAIN errs :
        IsBaseError(errs, e) =>
            /\ DOMAIN BaseErrorInfo(objs, errs, e) =
                  UNION {DOMAIN errs[CauseChain(e)[i]].given : i \in DOMAIN CauseChain(e)}
            /\ \A k \in DOMAIN BaseErrorInfo(objs, errs, e) :
                  \E i \in LinksWith(e, k) :
                     /\ \A j \in LinksWith(e, k) : i <= j
                     /\ BaseErrorInfo(objs, errs, e)[k] = errs[CauseChain(e)[i]].given[k]
            /\ errs[e].info # 0 => ~objs[errs[e].info].held

\* An error wraps another whose info has another value for a key and a key
\* of its own, and the application has since changed every object it holds,
\* one of them handed to it by info()
C28_Witness ==
    /\ last.op = "mutate"
    /\ Cardinality(HeldObjects) = MaxObjects
    /\ \A o \in HeldObjects :
          "a" \in DOMAIN objs[o].fields /\ objs[o].fields["a"] = <<"changed">>
    /\ \E o \in HeldObjects : objs[o].origin = "info"
    /\ \E e \in DOMAIN errs :
          /\ IsBaseError(errs, errs[e].cause)
          /\ \E k \in DOMAIN errs[e].given :
                /\ k \in DOMAIN errs[errs[e].cause].given
                /\ errs[e].given[k] # errs[errs[e].cause].given[k]
          /\ "a" \in DOMAIN BaseErrorInfo(objs, errs, errs[e].cause)
          /\ BaseErrorInfo(objs, errs, errs[e].cause)["a"] = <<"1">>

\* C29: errorFromList returns undefined for the empty list, the error itself
\* for a list of one, and for a longer list a new MultiError whose cause()
\* is the first error and whose errors() are the errors of the list in
\* order. errorForEach calls the callback with each error of a MultiError in
\* order, and once, with the error, for any other error.
C29_ErrorFromListAndForEach ==
    [][/\ last'.op = "errorFromList" =>
             LET list == last'.path
             IN /\ Len(list) = 0 => last'.got = <<>> /\ errs' = errs
                /\ Len(list) = 1 => last'.got = <<list[1]>> /\ errs' = errs
                /\ (Len(list) >= 2 /\ last' # last) =>
                      /\ Len(last'.got) = 1
                      /\ last'.got[1] \notin DOMAIN errs
                      /\ errs'[last'.got[1]].kind = "MultiError"
                      /\ cause(errs', last'.got[1]) = list[1]
                      /\ errs'[last'.got[1]].list = list
                      /\ \A e \in DOMAIN errs : errs'[e] = errs[e]
       /\ last'.op = "errorForEach" =>
             LET e == last'.path[1].ref
             IN last'.invoked = IF errs[e].kind = "MultiError" THEN errs[e].list ELSE <<e>>]_vars

\* The callback has been called with the two different errors of a
\* MultiError
C29_Witness ==
    /\ last.op = "errorForEach"
    /\ errs[last.path[1].ref].kind = "MultiError"
    /\ Len(last.invoked) = 2
    /\ last.invoked[1] # last.invoked[2]
    /\ cause(errs, last.path[1].ref) = last.invoked[1]

\* The positions of the strings among the arguments
StringPositions(args) == {i \in DOMAIN args : args[i].t = "string"}

Swapped(first, second) ==
    /\ Len(first) = 3
    /\ Len(second) = 3
    /\ first[1].t = "error"
    /\ first[2].t = "object"
    /\ second = <<first[2], first[1], first[3]>>

\* C31: new BaseError(c, i, m) and new BaseError(i, c, m), made one after
\* the other from the same cause c, info object i and message m, have the
\* same cause(), the same info() and the same message.
C31_LeadingSlotsInEitherOrder ==
    [][(/\ last.op = "construct"
        /\ last'.op = "construct"
        /\ ~last.threw
        /\ ~last'.threw
        /\ Swapped(last.path, last'.path))
       => /\ cause(errs', last'.got[1]) = cause(errs, last.got[1])
          /\ BaseErrorInfo(objs', errs', last'.got[1]) = BaseErrorInfo(objs, errs, last.got[1])
          /\ errs'[last'.got[1]].message = errs[last.got[1]].message]_vars

\* The part of C31 that holds: the two orders give the same cause() and
\* the same info()
C31_SameCauseAndInfo ==
    [][(/\ last.op = "construct"
        /\ last'.op = "construct"
        /\ ~last.threw
        /\ ~last'.threw
        /\ Swapped(last.path, last'.path))
       => /\ cause(errs', last'.got[1]) = cause(errs, last.got[1])
          /\ cause(errs', last'.got[1]) = last.path[1].ref
          /\ BaseErrorInfo(objs', errs', last'.got[1]) = BaseErrorInfo(objs, errs, last.got[1])
          /\ BaseErrorInfo(objs, errs, last.got[1]) = objs[last.path[2].ref].fields]_vars

\* The two orders have been used one after the other, and the info object
\* has properties
C31_BothOrdersMade ==
    /\ last.op = "construct"
    /\ ~last.threw
    /\ Len(errs) = 3
    /\ last.path \in BothOrders(1, last.path[1].ref)
    /\ errs[2].cause = 1
    /\ errs[3].cause = 1
    /\ errs[2].message # errs[3].message
    /\ errs[2].given = errs[3].given
    /\ errs[3].given # EmptyObject


\* The places of the handlers that throw in a registry
ThrowingAt(arr) == {i \in DOMAIN arr : arr[i].kind = "throws"}

\* C32: a level method that dispatches a record to a registry holding a
\* handler that throws does not return (the Error leaves it): the handlers
\* in front of the first throwing one and that one have been called with
\* the record, in order, none of those behind it has, and the registry
\* and the logger tree are as they were. Without such a handler the call
\* returns true.
C32_ThrowingHandlerPropagates ==
    [][last'.op = "log" =>
          /\ last'.threw <=> (last'.created = 1 /\ ThrowingAt(logHandlers) # {})
          /\ ~last'.threw => (last'.ret <=> last'.level >= loggers[RootKey].level)
          /\ last'.threw =>
                LET first == CHOOSE i \in ThrowingAt(logHandlers) :
                                \A j \in ThrowingAt(logHandlers) : i <= j
                IN /\ ~last'.ret
                   /\ Len(last'.invoked) = first
                   /\ \A i \in 1..first :
                         /\ last'.invoked[i].handler = logHandlers[i]
                         /\ last'.invoked[i].record = last'.invoked[1].record
                   /\ last'.invoked[1].record.time = clock'
                   /\ logHandlers' = logHandlers
                   /\ loggers' = loggers]_vars

\* A record has been dispatched to three handlers of which the second
\* throws
C32_Witness ==
    /\ last.op = "log"
    /\ last.threw
    /\ Len(logHandlers) = 3
    /\ ThrowingAt(logHandlers) = {2}
    /\ Len(last.invoked) = 2

\* C33: a level method that dispatches a record calls every handler that
\* is in the registry when it starts exactly once with the record, and no
\* other handler, also when the handlers work on the registry.
C33_DispatchToTheHandlersRegisteredAtTheStart ==
    [][(last'.op = "log" /\ last'.created = 1 /\ logHandlers # <<>>) =>
          /\ \A i \in DOMAIN logHandlers :
                Cardinality({j \in DOMAIN last'.invoked :
                                last'.invoked[j].handler = logHandlers[i]}) = 1
          /\ \A j \in DOMAIN last'.invoked :
                \E i \in DOMAIN logHandlers : logHandlers[i] = last'.invoked[j].handler]_vars


\* The names of the path a lookup was called with
NamesOf(op, path) == IF op = "childLoggerArray" THEN path ELSE Split(path)

\* C34: a Logger.get or childLogger call that throws on an empty name in
\* its path leaves the logger tree as it was.
C34_FailedLookupLeavesTheTreeUnchanged ==
    [][(/\ last'.op \in {"get", "childLogger", "childLoggerArray"}
        /\ last'.threw
        /\ <<>> \in Range(NamesOf(last'.op, last'.path)))
       => loggers' = loggers]_vars


\* The capturing handlers in a registry
CapturingIn(arr) == {i \in DOMAIN arr : arr[i].kind = "capture"}

\* C35: when the restore() of every capture taken has been called, in
\* whatever order, the registry holds no capturing handler and is the list
\* it was before the first capture; and a restore() called again after its
\* first call changes nothing.
C35_AllRestoredGivesBackTheFirstList ==
    [][/\ (captures' # <<>> /\ \A k \in DOMAIN captures' : captures'[k].restored)
          => /\ CapturingIn(logHandlers') = {}
             /\ logHandlers' = captures'[1].oldHandlers
       /\ \A k \in DOMAIN captures :
             (captures[k].restored /\ Restore(k)) => logHandlers' = logHandlers]_vars

\* C36: after the restore() of the only capture taken, called for the
\* first time, the handlers registered are those that were registered when
\* the capture was taken, whatever was registered and unregistered in
\* between.
C36_RestoreGivesBackTheSetAtCapture ==
    [][(Len(captures) = 1 /\ ~captures[1].restored /\ Restore(1))
       => Range(logHandlers') = Range(captures[1].oldHandlers)]_vars


IsEntryRecord(e) == IsRecord(e) /\ e.tag = "entry"

IsExitRecord(e) == IsRecord(e) /\ e.tag \in {"RETURNS", "THROWS"}

\* The calls of functions made by traceWrap that have ended
EndedTraceCalls ==
    {id \in 1..callCount :
        /\ \E i \in DOMAIN events : IsTraceCall(events[i]) /\ events[i].call = id
        /\ PositionsOf(events, id, IsExit) # {}}

\* C37 as stated: every call of a function made by traceWrap that has ended
\* has emitted as many exit records (RETURNS or THROWS) as entry records,
\* at most one of each, and every exit record comes after the entry record
\* of its call, however the level of the logger was set meanwhile.
C37_EntryAndExitRecordsPair ==
    /\ \A id \in EndedTraceCalls :
          /\ Len(EventsOf(events, id, IsEntryRecord)) <= 1
          /\ Len(EventsOf(events, id, IsExitRecord)) = Len(EventsOf(events, id, IsEntryRecord))
    /\ \A i \in DOMAIN events :
          IsExitRecord(events[i]) =>
              \E j \in PositionsOf(events, events[i].call, IsEntryRecord) : j < i

\* C37, amended: every exit record comes after the entry record of its
\* call, and a call emits at most one entry and one exit record; a call
\* that emitted its entry record emits its exit record when trace is still
\* enabled as the wrapped function returns or throws, and none when trace
\* has been disabled by then. The exit record is THROWS when the function
\* threw and RETURNS when it returned.
C37_ExitRecordIffStillEnabledAtExit ==
    /\ \A id \in EndedTraceCalls :
          LET entries == EventsOf(events, id, IsEntryRecord)
              exits == EventsOf(events, id, IsExitRecord)
              done == EventsOf(events, id, IsDone)
          IN /\ Len(entries) <= 1
             /\ Len(exits) <= 1
             /\ Len(done) = 1
             /\ Len(exits) = 1 <=> (Len(entries) = 1 /\ done[1].at <= trace)
             /\ Len(exits) = 1 => (exits[1].tag = "THROWS" <=> done[1].outcome.threw)
    /\ \A i \in DOMAIN events :
          IsExitRecord(events[i]) =>
              \E j \in PositionsOf(events, events[i].call, IsEntryRecord) : j < i

\* A call has emitted its entry record and has ended without an exit
\* record, trace having been disabled while the wrapped function ran; and
\* a call made with trace disabled has ended, with trace enabled, without
\* any record
C37_Witness ==
    \E a, b \in EndedTraceCalls :
        /\ Len(EventsOf(events, a, IsEntryRecord)) = 1
        /\ EventsOf(events, a, IsExitRecord) = <<>>
        /\ EventsOf(events, a, IsDone)[1].at > trace
        /\ EventsOf(events, b, IsRecord) = <<>>
        /\ EventsOf(events, b, IsDone)[1].at <= trace


\* The key path of the logger Logger.get(name)
KeyOf(name) == IF name = <<>> THEN RootKey ELSE Split(name)

\* C38: a handler made by forLogger(name, h) with a string, registered
\* while a logger emits a record, passes the record to h when the logger is
\* Logger.get(name) or lies in its subtree of the logger tree, and only
\* then; the subtree of the root logger, whose name is '', is the whole
\* tree.
C38_ForLoggerPassesTheSubtree ==
    (last.op = "log" /\ last.created = 1) =>
        \A i \in DOMAIN logHandlers :
            logHandlers[i].kind = "forLogger" =>
                ((\E j \in DOMAIN last.invoked :
                     /\ last.invoked[j].handler = logHandlers[i].handler
                     /\ last.invoked[j].record.logger = loggers[last.node].name)
                 <=> IsPrefix(KeyOf(logHandlers[i].name), last.node))


\* The pattern matches the string: what test answers on a RegExp object
\* that has not been used
PatternMatches(name, str) == regExpTest(name, 0, str).matched

\* C39: a handler made by forLogger(pattern, h) passes a record to h when
\* the pattern matches record.logger, and only then, whatever records it
\* was called with before and whatever flags the pattern carries.
C39_PatternDecidesByLoggerNameAlone ==
    (last.op = "handle" /\ last.invoked[1].handler.kind = "forLoggerPattern") =>
        LET wrapper == last.invoked[1].handler
            record == last.invoked[1].record
        IN (/\ Len(last.invoked) = 2
            /\ last.invoked[2] = [handler |-> wrapper.handler, record |-> record])
           <=> PatternMatches(wrapper.name, record.logger)

\* The part of C39 that holds: for a pattern without the flags g and y
C39_PatternWithoutFlagsDecidesByLoggerNameAlone ==
    (/\ last.op = "handle"
     /\ last.invoked[1].handler.kind = "forLoggerPattern"
     /\ ~last.invoked[1].handler.name.global
     /\ ~last.invoked[1].handler.name.sticky) =>
        LET wrapper == last.invoked[1].handler
            record == last.invoked[1].record
        IN /\ Len(last.invoked) = 2 <=> PatternMatches(wrapper.name, record.logger)
           /\ \A re \in RegExps : ~(Pattern(re).global \/ Pattern(re).sticky) => lastIndex[re] = 0


\* C40: a ringBuffer of any capacity maxSize >= 0, whatever number of
\* values it was handed, has size <= maxSize, and get() returns size
\* elements, so never more than maxSize.
C40_GetReturnsSizeElementsAtMostMaxSize ==
    ring # NoRing =>
        /\ ring.size <= ring.maxSize
        /\ Len(ringGet(ring)) = ring.size
        /\ last.op = "ringGet" =>
              /\ Len(last.got) = ring.size
              /\ Len(last.got) <= ring.maxSize

\* The part of C40 that holds: for a capacity of at least 1
C40_GetReturnsSizeElementsFromCapacityOne ==
    (ring # NoRing /\ ring.maxSize >= 1) =>
        /\ ring.size <= ring.maxSize
        /\ Len(ringGet(ring)) = ring.size
        /\ last.op = "ringGet" => Len(last.got) = ring.size


====
